---- MODULE Spec2Model ----
(***************************************************************************)
(* The asynchronous sinc resampler of src/src/asynchro_sinc.rs (struct     *)
(* Sinc and its Resampler implementation) with the buffer validation and   *)
(* the provided trait methods of src/src/lib.rs.                           *)
(*                                                                         *)
(* f64 quantities (ratios, cursor, steps) are binary64 values: every        *)
(* operation rounds its exact result to the nearest one, ties to even.     *)
(* floor, ceil and the saturating float-to-usize cast are computed on that *)
(* value.                                                                  *)
(***************************************************************************)
EXTENDS Integers, Sequences, FiniteSets, TLC

\* ------------------------------------------------------------------------
\* Bounds of the model
\* ------------------------------------------------------------------------
\* Largest chunk_size given to the constructor.
MaxChunk == 4
\* Number of trait calls made on one resampler instance.
MaxOps == 2
\* Number of calls made on one instance by a caller that streams: every call
\* well-formed and within the limits the resampler announces.
MaxStreamOps == 5
\* Calls made on one resampler in CursorSpec.
MaxCursorOps == 4
\* Largest magnitude of an input sample.
MaxSample == 1
\* Calls made by a caller that ends its stream with partial chunks.
MaxPartialOps == 2
\* Calls made by a caller that repeats failed calls.
MaxRecoverOps == 2
\* Calls made by a caller that lets the resampler allocate the output.
MaxAllocOps == 2
\* Calls made on a resampler after its construction was checked.
MaxConstructOps == 1
\* Calls other than process_into_buffer made by a caller that streams
\* without end.
MaxRepeatOps == 1
\* Repetitions of a measured run.
MaxRunOps == 8100
\* Frames a measured run has consumed when it counts as long.
LongRun == 8000

\* ------------------------------------------------------------------------
\* Construction parameters that are the same in every run
\* ------------------------------------------------------------------------
\* Length of the interpolator: the smallest value make_interpolator yields.
SincLen == 8
\* Number of sub-filters of the polyphase bank.
OversamplingFactor == 2
\* Number of channels.
NbrChannels == 2

\* ------------------------------------------------------------------------
\* f64 arithmetic
\* ------------------------------------------------------------------------
\* An f64 other than 0 is [sign |-> s, exp |-> e, mant |-> <<hi, mid, lo>>]
\* with s in {-1, 1} and the 53-bit significand hi * 2^36 + mid * 2^18 + lo
\* in [2^52, 2^53): its value is s * (hi * 2^36 + mid * 2^18 + lo) * 2^e.
\* Zero is FZero.  Every operation computes the exact result and rounds it to
\* the nearest f64, ties to even, as the hardware does.  Infinities, NaN and
\* subnormal numbers are outside the range of the values the resampler holds.
Abs(a) == IF a < 0 THEN -a ELSE a

\* The only element of a one-element set: binds a value that is evaluated once.
Only(S) == CHOOSE x \in S : TRUE

\* Bits of a limb, and its range: significands are held in limbs of 18 bits.
LimbBits == 18
Limb == 262144
Pow2 == [i \in 0..30 |-> 2 ^ i]

FZero == [sign |-> 0, exp |-> 0, mant |-> <<0, 0, 0>>]

\* Natural numbers of any size: sequences of limbs, least significant first.
At(N, i) == IF i >= 1 /\ i <= Len(N) THEN N[i] ELSE 0

\* The number of bits of x, for x below 2 * Limb.
BitLen(x) ==
    IF x < 512
    THEN IF x < 16
         THEN IF x < 2 THEN x ELSE IF x < 4 THEN 2 ELSE IF x < 8 THEN 3 ELSE 4
         ELSE IF x < 64 THEN (IF x < 32 THEN 5 ELSE 6)
         ELSE IF x < 128 THEN 7 ELSE IF x < 256 THEN 8 ELSE 9
    ELSE IF x < 16384
         THEN IF x < 2048 THEN (IF x < 1024 THEN 10 ELSE 11)
              ELSE IF x < 4096 THEN 12 ELSE IF x < 8192 THEN 13 ELSE 14
         ELSE IF x < 65536 THEN (IF x < 32768 THEN 15 ELSE 16)
         ELSE IF x < 131072 THEN 17 ELSE IF x < 262144 THEN 18 ELSE 19

RECURSIVE Top(_, _)
Top(N, i) == IF i = 0 \/ N[i] # 0 THEN i ELSE Top(N, i - 1)

NatBits(N) ==
    Only({Only({IF t = 0 THEN 0 ELSE LimbBits * (t - 1) + BitLen(n[t]) :
                  t \in {Top(n, Len(n))}}) : n \in {N}})

NatShiftLeft(N, d) ==
    Only({[i \in 1..(Len(Z) + 1) |->
                (At(Z, i) % Pow2[LimbBits - r]) * Pow2[r]
                + (At(Z, i - 1) \div Pow2[LimbBits - r])] :
            Z \in {[i \in 1..(d \div LimbBits) |-> 0] \o N}, r \in {d % LimbBits}})

RECURSIVE NatAddFrom(_, _, _, _)
NatAddFrom(X, Y, i, c) ==
    IF i > Len(X) /\ i > Len(Y) THEN <<c>>
    ELSE Only({<<s % Limb>> \o NatAddFrom(X, Y, i + 1, s \div Limb) :
                 s \in {At(X, i) + At(Y, i) + c}})

\* X - Y for X >= Y.
RECURSIVE NatSubFrom(_, _, _, _)
NatSubFrom(X, Y, i, b) ==
    IF i > Len(X) THEN <<>>
    ELSE Only({<<(s + Limb) % Limb>> \o NatSubFrom(X, Y, i + 1, IF s < 0 THEN 1 ELSE 0) :
                 s \in {At(X, i) - At(Y, i) - b}})

\* -1, 0, 1 as X <, =, > Y, comparing the limbs from i downwards.
RECURSIVE NatCmpFrom(_, _, _)
NatCmpFrom(X, Y, i) ==
    IF i = 0 THEN 0
    ELSE IF At(X, i) < At(Y, i) THEN -1
    ELSE IF At(X, i) > At(Y, i) THEN 1
    ELSE NatCmpFrom(X, Y, i - 1)

NatCmp(X, Y) == NatCmpFrom(X, Y, IF Len(X) > Len(Y) THEN Len(X) ELSE Len(Y))

\* Limbs of 9 bits, for products that stay below 2^31.
Halves(N) ==
    [i \in 1..(2 * Len(N)) |->
        IF i % 2 = 1 THEN N[(i + 1) \div 2] % 512 ELSE N[i \div 2] \div 512]

RECURSIVE Column(_, _, _, _)
Column(X, Y, k, i) ==
    IF i > Len(X) \/ i > k THEN 0
    ELSE (IF k - i + 1 <= Len(Y) THEN X[i] * Y[k - i + 1] ELSE 0)
         + Column(X, Y, k, i + 1)

\* The 9-bit limbs of the number whose 9-bit columns are C, from column i on.
RECURSIVE Carry9(_, _, _)
Carry9(C, i, c) ==
    IF i > Len(C) /\ c = 0 THEN <<>>
    ELSE Only({<<s % 512>> \o Carry9(C, i + 1, s \div 512) : s \in {At(C, i) + c}})

Pairs(H) ==
    Only({[i \in 1..((Len(h) + 1) \div 2) |-> At(h, 2 * i - 1) + 512 * At(h, 2 * i)] :
            h \in {H}})

NatMul(X, Y) ==
    Only({Pairs(Only({Carry9(C, 1, 0) :
                        C \in {[k \in 1..(Len(x) + Len(y)) |-> Column(x, y, k, 1)]}})) :
            x \in {Halves(X)}, y \in {Halves(Y)}})

\* The f64 nearest to sign * (N + t) * 2^e, where N > 0 and 0 <= t < 1, and
\* sticky tells whether t > 0.
\* The limbs t, t - 1, t - 2 of A are the 53 bits kept, the limbs below and
\* sticky decide the rounding.
RoundUp(A, t, sticky) ==
    /\ t > 3
    /\ A[t - 3] >= Pow2[17]
    /\ \/ sticky
       \/ A[t - 3] # Pow2[17]
       \/ \E i \in 1..(t - 4) : A[i] # 0
       \/ A[t - 2] % 2 = 1

RoundAligned(sign, A, t, e, sticky) ==
    Only({IF ~RoundUp(a, t, sticky)
          THEN [sign |-> sign, exp |-> e, mant |-> <<a[t], a[t - 1], a[t - 2]>>]
          ELSE IF a[t - 2] + 1 < Limb
          THEN [sign |-> sign, exp |-> e, mant |-> <<a[t], a[t - 1], a[t - 2] + 1>>]
          ELSE IF a[t - 1] + 1 < Limb
          THEN [sign |-> sign, exp |-> e, mant |-> <<a[t], a[t - 1] + 1, 0>>]
          ELSE IF a[t] + 1 < Pow2[17]
          THEN [sign |-> sign, exp |-> e, mant |-> <<a[t] + 1, 0, 0>>]
          ELSE [sign |-> sign, exp |-> e + 1, mant |-> <<Pow2[16], 0, 0>>] :
            a \in {A}})

TargetBits(L) ==
    IF L <= 53 THEN 53 ELSE LimbBits * ((L + LimbBits) \div LimbBits) - 1

Round(sign, N, e, sticky) ==
    Only({Only({Only({RoundAligned(sign, A, (T + 1) \div LimbBits,
                                   e - (T - L) + (T - 53), sticky) :
                        A \in {NatShiftLeft(n, T - L)}}) :
                  L \in {NatBits(n)}, T \in {TargetBits(NatBits(n))}}) :
            n \in {N}})

\* The significand, least significant limb first.
Mag(a) == <<a.mant[3], a.mant[2], a.mant[1]>>

\* usize as f64, isize as f64
RInt(n) ==
    IF n = 0 THEN FZero
    ELSE IF Abs(n) < Pow2[17]
    THEN Only({[sign |-> IF n < 0 THEN -1 ELSE 1, exp |-> L - 53,
                mant |-> <<Abs(n) * Pow2[17 - L], 0, 0>>] : L \in {BitLen(Abs(n))}})
    ELSE Round(IF n < 0 THEN -1 ELSE 1, <<Abs(n) % Limb, Abs(n) \div Limb>>, 0, FALSE)

RNeg(a) == [a EXCEPT !.sign = -a.sign]

\* The significand has 17 bits at most: the value is mant[1] * 2^(exp + 36).
IsShort(a) == a.mant[2] = 0 /\ a.mant[3] = 0

\* sign * (H * Limb + L) * 2^e, which is an f64, for 0 < H * Limb + L < Limb^2.
Exact2(sign, H, L, e) ==
    LET d == 36 - (IF H = 0 THEN BitLen(L) ELSE LimbBits + BitLen(H))
        H2 == IF d >= LimbBits THEN L * Pow2[d - LimbBits]
              ELSE H * Pow2[d] + L \div Pow2[LimbBits - d]
        L2 == IF d >= LimbBits THEN 0 ELSE (L % Pow2[LimbBits - d]) * Pow2[d]
    IN  [sign |-> sign, exp |-> e - d - 17,
         mant |-> <<H2 \div 2, (H2 % 2) * Pow2[17] + L2 \div 2, (L2 % 2) * Pow2[17]>>]

\* x + y for short significands whose exponents differ by 13 at most,
\* x.exp >= y.exp: the sum is an integer below 2^31 times 2^(y.exp + 36).
AddShort(x, y) ==
    LET s == x.sign * x.mant[1] * Pow2[x.exp - y.exp] + y.sign * y.mant[1]
    IN  IF s = 0 THEN FZero
        ELSE Exact2(IF s < 0 THEN -1 ELSE 1, Abs(s) \div Limb, Abs(s) % Limb, y.exp + 36)

\* x * y for short significands: the product has 34 bits at most.
MulShort(x, y) ==
    LET t1 == x.mant[1] * (y.mant[1] % 512)
        t2 == x.mant[1] * (y.mant[1] \div 512)
        low == t1 + (t2 % 512) * 512
    IN  Exact2(x.sign * y.sign, t2 \div 512 + low \div Limb, low % Limb,
               x.exp + y.exp + 72)

\* Four limbs, 72 bits, hold the aligned significands of a sum.
\* The limbs of N \div 2^d.
ShiftRight4(N, d) ==
    LET q == d \div LimbBits
        p == Pow2[d % LimbBits]
        w == Pow2[LimbBits - (d % LimbBits)]
        Src(i) == IF i <= 4 THEN N[i] ELSE 0
        Dst(i) == Src(i + q) \div p + (Src(i + q + 1) % p) * w
    IN  <<Dst(1), Dst(2), Dst(3), Dst(4)>>

\* N is not a multiple of 2^d.
Lost4(N, d) ==
    LET q == d \div LimbBits
    IN  \/ q >= 1 /\ N[1] # 0
        \/ q >= 2 /\ N[2] # 0
        \/ q >= 3 /\ N[3] # 0
        \/ q <= 3 /\ N[q + 1] % Pow2[d % LimbBits] # 0

\* The limbs of N * 2^d, for N * 2^d < 2^72.
ShiftLeft4(N, d) ==
    LET q == d \div LimbBits
        p == Pow2[d % LimbBits]
        w == Pow2[LimbBits - (d % LimbBits)]
        Src(i) == IF i >= 1 THEN N[i] ELSE 0
        Dst(i) == (Src(i - q) % w) * p + Src(i - q - 1) \div w
    IN  <<Dst(1), Dst(2), Dst(3), Dst(4)>>

\* The limbs of X + Y: the last one may reach Limb.
Add4(X, Y) ==
    LET s1 == X[1] + Y[1]
        s2 == X[2] + Y[2] + s1 \div Limb
        s3 == X[3] + Y[3] + s2 \div Limb
    IN  <<s1 % Limb, s2 % Limb, s3 % Limb, X[4] + Y[4] + s3 \div Limb>>

\* The limbs of X - Y - b, for X >= Y + b.
Sub4(X, Y, b) ==
    LET d1 == X[1] - Y[1] - b
        d2 == X[2] - Y[2] - (IF d1 < 0 THEN 1 ELSE 0)
        d3 == X[3] - Y[3] - (IF d2 < 0 THEN 1 ELSE 0)
    IN  <<(d1 + Limb) % Limb, (d2 + Limb) % Limb, (d3 + Limb) % Limb,
          X[4] - Y[4] - (IF d3 < 0 THEN 1 ELSE 0)>>

\* -1, 0, 1 as X <, =, > Y.
Cmp4(X, Y) ==
    IF X[4] # Y[4] THEN (IF X[4] < Y[4] THEN -1 ELSE 1)
    ELSE IF X[3] # Y[3] THEN (IF X[3] < Y[3] THEN -1 ELSE 1)
    ELSE IF X[2] # Y[2] THEN (IF X[2] < Y[2] THEN -1 ELSE 1)
    ELSE IF X[1] # Y[1] THEN (IF X[1] < Y[1] THEN -1 ELSE 1)
    ELSE 0

Bits4(S) ==
    IF S[4] # 0 THEN 3 * LimbBits + BitLen(S[4])
    ELSE IF S[3] # 0 THEN 2 * LimbBits + BitLen(S[3])
    ELSE IF S[2] # 0 THEN LimbBits + BitLen(S[2])
    ELSE BitLen(S[1])

\* The f64 nearest to sign * (S + t) * 2^e, where S > 0 has four limbs,
\* 0 <= t < 1, and sticky tells whether t > 0.
RoundSum(sign, S, e, sticky) ==
    Only({IF L = 71 THEN RoundAligned(sign, S, 4, e + 18, sticky)
          ELSE IF L > 71
          THEN RoundAligned(sign, ShiftRight4(S, 1), 4, e + 19, sticky \/ S[1] % 2 = 1)
          ELSE RoundAligned(sign, ShiftLeft4(S, 71 - L), 4, e + 18 - (71 - L), sticky) :
            L \in {Bits4(S)}})

\* x + y of different signs, on the aligned significands X and Y: lost tells
\* whether the alignment dropped bits of Y.
SubAligned(x, y, X, Y, lost) ==
    Only({IF c = 0 THEN FZero
          ELSE IF c > 0
          THEN Only({RoundSum(x.sign, S, x.exp - 18, lost) :
                       S \in {Sub4(X, Y, IF lost THEN 1 ELSE 0)}})
          ELSE Only({RoundSum(y.sign, S, x.exp - 18, FALSE) :
                       S \in {Sub4(Y, X, 0)}}) :
            c \in {IF x.exp > y.exp THEN 1 ELSE Cmp4(X, Y)}})

\* x + y for x.exp >= y.exp, both other than 0: y is aligned to x with 18
\* bits more than the significand has.
AddOrdered(x, y) ==
    IF x.exp - y.exp >= 55 THEN x
    ELSE Only({IF x.sign = y.sign
               THEN Only({RoundSum(x.sign, S, x.exp - 18, lost) : S \in {Add4(X, Y)}})
               ELSE SubAligned(x, y, X, Y, lost) :
                 X \in {<<0, x.mant[3], x.mant[2], x.mant[1]>>},
                 Y \in {ShiftRight4(<<0, y.mant[3], y.mant[2], y.mant[1]>>,
                                    x.exp - y.exp)},
                 lost \in {Lost4(<<0, y.mant[3], y.mant[2], y.mant[1]>>, x.exp - y.exp)}})

RAdd(a, b) ==
    Only({IF x.sign = 0 THEN y
          ELSE IF y.sign = 0 THEN x
          ELSE IF IsShort(x) /\ IsShort(y) /\ Abs(x.exp - y.exp) <= 13
          THEN (IF x.exp >= y.exp THEN AddShort(x, y) ELSE AddShort(y, x))
          ELSE IF x.exp >= y.exp THEN AddOrdered(x, y) ELSE AddOrdered(y, x) :
            x \in {a}, y \in {b}})

RSub(a, b) == RAdd(a, RNeg(b))

\* -1, 0, 1 as a <, =, > b.
FCmp(a, b) ==
    IF a.sign # b.sign THEN (IF a.sign < b.sign THEN -1 ELSE 1)
    ELSE IF a.sign = 0 THEN 0
    ELSE IF a.exp # b.exp THEN (IF a.exp < b.exp THEN -a.sign ELSE a.sign)
    ELSE a.sign * NatCmp(Mag(a), Mag(b))

RLe(a, b) == Only({FCmp(x, y) <= 0 : x \in {a}, y \in {b}})
RLt(a, b) == Only({FCmp(x, y) < 0 : x \in {a}, y \in {b}})

\* The integer part of |a|, for |a| < 2^31.
IntPart(a) ==
    IF a.sign = 0 \/ -a.exp >= 53 THEN 0
    ELSE IF -a.exp >= 36 THEN a.mant[1] \div Pow2[-a.exp - 36]
    ELSE a.mant[1] * Pow2[36 + a.exp] + a.mant[2] \div Pow2[-a.exp - 18]

\* |a| is not an integer.
HasFrac(a) ==
    IF a.sign = 0 THEN FALSE
    ELSE IF -a.exp >= 53 THEN TRUE
    ELSE IF -a.exp >= 36
    THEN a.mant[1] % Pow2[-a.exp - 36] # 0 \/ a.mant[2] # 0 \/ a.mant[3] # 0
    ELSE a.mant[2] % Pow2[-a.exp - 18] # 0 \/ a.mant[3] # 0

\* f64::floor and f64::ceil, as integers.
RFloor(a) ==
    Only({IF x.sign >= 0 THEN IntPart(x)
          ELSE -IntPart(x) - (IF HasFrac(x) THEN 1 ELSE 0) : x \in {a}})
RCeil(a) ==
    Only({IF x.sign <= 0 THEN -IntPart(x)
          ELSE IntPart(x) + (IF HasFrac(x) THEN 1 ELSE 0) : x \in {a}})

\* <<k, tz>> with k odd and k * 2^tz the number started from.
OddPart(k) ==
    Only({<<k \div Pow2[t], t>> :
            t \in {CHOOSE t \in 0..(LimbBits - 1) :
                        k % Pow2[t] = 0 /\ k % Pow2[t + 1] # 0}})

\* The significand has at most 13 bits that matter.
IsSmall(a) == a.mant[2] = 0 /\ a.mant[3] = 0 /\ a.mant[1] % 16 = 0

RECURSIVE NatMulSmallFrom(_, _, _, _)
NatMulSmallFrom(N, k, i, c) ==
    IF i > Len(N) THEN <<c>>
    ELSE Only({<<s % Limb>> \o NatMulSmallFrom(N, k, i + 1, s \div Limb) :
                 s \in {N[i] * k + c}})

\* x * y where the significand of y is small.
MulBySmall(x, y, o) ==
    Only({Round(x.sign * y.sign, NatMulSmallFrom(Mag(x), k[1], 1, 0),
                x.exp + y.exp + 36 + k[2], FALSE) : k \in {o}})

\* The significand of a power of two.
PowerOfTwo == <<65536, 0, 0>>

RMul(a, b) ==
    Only({IF x.sign = 0 \/ y.sign = 0 THEN FZero
          ELSE IF y.mant = PowerOfTwo
          THEN [sign |-> x.sign * y.sign, exp |-> x.exp + y.exp + 52, mant |-> x.mant]
          ELSE IF x.mant = PowerOfTwo
          THEN [sign |-> x.sign * y.sign, exp |-> x.exp + y.exp + 52, mant |-> y.mant]
          ELSE IF IsShort(x) /\ IsShort(y) THEN MulShort(x, y)
          ELSE IF IsSmall(y) THEN MulBySmall(x, y, OddPart(y.mant[1]))
          ELSE IF IsSmall(x) THEN MulBySmall(y, x, OddPart(x.mant[1]))
          ELSE Round(x.sign * y.sign, NatMul(Mag(x), Mag(y)), x.exp + y.exp, FALSE) :
            x \in {a}, y \in {b}})

\* <<the limbs i .. 1 of the quotient of rem * Limb^i + N[1..i] by k, the remainder>>
RECURSIVE NatDivSmallFrom(_, _, _, _)
NatDivSmallFrom(N, k, i, rem) ==
    IF i = 0 THEN <<<<>>, rem>>
    ELSE Only({Only({<<Append(r[1], s \div k), r[2]>> :
                       r \in {NatDivSmallFrom(N, k, i - 1, s % k)}}) :
                 s \in {rem * Limb + N[i]}})

\* x / y where the significand of y is small.
DivBySmall(x, y, o) ==
    Only({Round(x.sign * y.sign, q[1], x.exp - 36 - (y.exp + 36 + k[2]), q[2] # 0) :
            q \in {NatDivSmallFrom(NatShiftLeft(Mag(x), 36), OddPart(y.mant[1])[1], 6, 0)},
            k \in {o}})

\* The bits of the quotient one step of the long division produces.
DigitBits == 11

\* The limbs of D * k, for D < 2^54 and k <= 2^DigitBits.
MulSmall4(D, k) ==
    LET p1 == D[1] * k
        p2 == D[2] * k + p1 \div Limb
        p3 == D[3] * k + p2 \div Limb
    IN  <<p1 % Limb, p2 % Limb, p3 % Limb, p3 \div Limb>>

\* One step of the long division by D, 2^52 <= D < 2^53, on <<Q, R>> with
\* R < D: the digit q = floor(R * 2^DigitBits / D) is appended to Q and
\* R * 2^DigitBits - q * D is left.  The leading limbs estimate q from below,
\* by one at most.
DivDigit(qr, D) ==
    Only({Only({Only({IF Cmp4(r, D) >= 0
                      THEN <<[Q EXCEPT ![1] = @ + qh + 1], Sub4(r, D, 0)>>
                      ELSE <<[Q EXCEPT ![1] = @ + qh], r>> :
                        r \in {Sub4(Rs, MulSmall4(D, qh), 0)},
                        Q \in {ShiftLeft4(qr[1], DigitBits)}}) :
                  qh \in {(Rs[3] + Rs[4] * Limb) \div (D[3] + 1)}}) :
            Rs \in {ShiftLeft4(qr[2], DigitBits)}})

\* floor(X * 2^55 / D) and what is left, for 2^52 <= X, D < 2^53.
DivDigits(X, D) ==
    Only({DivDigit(DivDigit(DivDigit(DivDigit(DivDigit(qr, D), D), D), D), D) :
            qr \in {IF Cmp4(X, D) >= 0 THEN <<<<1, 0, 0, 0>>, Sub4(X, D, 0)>>
                    ELSE <<<<0, 0, 0, 0>>, X>>}})

\* x / y by long division: 56 bits of quotient and what is left.
DivLong(x, y) ==
    Only({Round(x.sign * y.sign, q[1], x.exp - y.exp - 55, q[2] # <<0, 0, 0, 0>>) :
            q \in {DivDigits(Mag(x) \o <<0>>, Mag(y) \o <<0>>)}})

RDiv(a, b) ==
    Only({IF x.sign = 0 THEN FZero
          ELSE IF y.mant = PowerOfTwo
          THEN [sign |-> x.sign * y.sign, exp |-> x.exp - y.exp - 52, mant |-> x.mant]
          ELSE IF IsSmall(y) THEN DivBySmall(x, y, OddPart(y.mant[1]))
          ELSE DivLong(x, y) :
            x \in {a}, y \in {b}})

RHalf == RDiv(RInt(1), RInt(2))

\* `x as usize` on a finite f64 that was floored, ceiled or truncated:
\* negative values saturate to 0.
AsUsize(i) == IF i < 0 THEN 0 ELSE i
\* `x as usize` on a non-negative f64: truncation.
TruncUsize(a) == AsUsize(RFloor(a))

\* ------------------------------------------------------------------------
\* Sizing functions of Sinc
\* ------------------------------------------------------------------------
\* 0.5 * resample_ratio + 0.5 * target_ratio
MeanRatio(resample_ratio_, target_ratio_) ==
    RAdd(RMul(RHalf, resample_ratio_), RMul(RHalf, target_ratio_))

calculate_input_size(chunk_size_, resample_ratio_, target_ratio_, last_index_, interpolator_len, fixed_) ==
    IF fixed_ = "Input"
    THEN chunk_size_
    ELSE AsUsize(RCeil(RAdd(RAdd(last_index_,
                                 RDiv(RInt(chunk_size_),
                                      MeanRatio(resample_ratio_, target_ratio_))),
                            RInt(interpolator_len))))

calculate_output_size(chunk_size_, resample_ratio_, target_ratio_, last_index_, interpolator_len, fixed_) ==
    IF fixed_ = "Output"
    THEN chunk_size_
    ELSE AsUsize(RFloor(RMul(RSub(RSub(RInt(chunk_size_), RInt(interpolator_len + 1)),
                                  last_index_),
                             MeanRatio(resample_ratio_, target_ratio_))))

calculate_max_input_size(chunk_size_, resample_ratio_original_, max_relative_ratio_, interpolator_len, fixed_) ==
    IF fixed_ = "Input"
    THEN chunk_size_
    ELSE AsUsize(RCeil(RMul(RDiv(RInt(chunk_size_), resample_ratio_original_),
                            max_relative_ratio_)))
         + 2 + (interpolator_len \div 2)

calculate_max_output_size(chunk_size_, resample_ratio_original_, max_relative_ratio_, fixed_) ==
    IF fixed_ = "Output"
    THEN chunk_size_
    ELSE TruncUsize(RAdd(RMul(RMul(RInt(chunk_size_), resample_ratio_original_),
                              max_relative_ratio_),
                         RInt(10)))

\* validate_ratios: "Ok", or the construction error.
\* validate_ratios checking the relative ratio first.
validate_ratios_RelativeFirst(resample_ratio_, max_resample_ratio_relative) ==
    IF RLt(max_resample_ratio_relative, RInt(1)) THEN "InvalidRelativeRatio"
    ELSE IF RLe(resample_ratio_, RInt(0)) THEN "InvalidRatio"
    ELSE "Ok"

validate_ratios(resample_ratio_, max_resample_ratio_relative) ==
    IF RLe(resample_ratio_, RInt(0)) THEN "InvalidRatio"
    ELSE IF RLt(max_resample_ratio_relative, RInt(1)) THEN "InvalidRelativeRatio"
    ELSE "Ok"

\* ------------------------------------------------------------------------
\* State
\* ------------------------------------------------------------------------
VARIABLES
    \* fields of Sinc
    fixed, interpolation, nbr_channels, max_chunk_size,
    resample_ratio_original, max_relative_ratio,
    chunk_size, needed_input_size, needed_output_size, last_index,
    resample_ratio, target_ratio, buffer, channel_mask,
    \* the caller: the last call and its arguments, what it returned, the
    \* caller's output buffer after the call, the number of calls made
    call, ret, wave_out, nops,
    \* a caller that measures the rate: the frames consumed and produced by
    \* its calls so far
    total_in, total_out

params == <<fixed, interpolation, nbr_channels, max_chunk_size,
            resample_ratio_original, max_relative_ratio>>
fields == <<chunk_size, needed_input_size, needed_output_size, last_index,
            resample_ratio, target_ratio, buffer, channel_mask>>
totals == <<total_in, total_out>>
vars == <<params, fields, call, ret, wave_out, nops, totals>>

\* The resampler as one value, for the operators below.
Self == [fixed |-> fixed, interpolation |-> interpolation,
         nbr_channels |-> nbr_channels, max_chunk_size |-> max_chunk_size,
         resample_ratio_original |-> resample_ratio_original,
         max_relative_ratio |-> max_relative_ratio,
         chunk_size |-> chunk_size, needed_input_size |-> needed_input_size,
         needed_output_size |-> needed_output_size, last_index |-> last_index,
         resample_ratio |-> resample_ratio, target_ratio |-> target_ratio,
         buffer |-> buffer, channel_mask |-> channel_mask]

\* interpolator.len() and interpolator.nbr_sincs()
interpolator_len_ == SincLen
nbr_sincs == OversamplingFactor

input_frames_max(self) ==
    calculate_max_input_size(self.max_chunk_size, self.resample_ratio_original,
                             self.max_relative_ratio, interpolator_len_, self.fixed)
\* output_frames_max computed from the current chunk size and ratio.
output_frames_max_FromCurrent(self) ==
    calculate_max_output_size(self.chunk_size, self.resample_ratio,
                              self.max_relative_ratio, self.fixed)
output_frames_max(self) ==
    calculate_max_output_size(self.max_chunk_size, self.resample_ratio_original,
                              self.max_relative_ratio, self.fixed)
input_frames_next(self) == self.needed_input_size
output_frames_next(self) == self.needed_output_size

\* buffer[0].len(): fixed at construction
buffer_len(self) == Len(self.buffer[1])

update_lengths(self) ==
    [self EXCEPT
        !.needed_input_size =
            calculate_input_size(self.chunk_size, self.resample_ratio,
                                 self.target_ratio, self.last_index,
                                 interpolator_len_, self.fixed),
        !.needed_output_size =
            calculate_output_size(self.chunk_size, self.resample_ratio,
                                  self.target_ratio, self.last_index,
                                  interpolator_len_, self.fixed)]

\* ------------------------------------------------------------------------
\* Construction, mutators
\* ------------------------------------------------------------------------
Zeros(n) == [i \in 1..n |-> 0]
AllTrue(n) == [i \in 1..n |-> TRUE]

\* The fields when construction returned an error: there is no resampler.
NoSinc ==
    [fixed |-> <<>>, interpolation |-> <<>>, nbr_channels |-> <<>>,
     max_chunk_size |-> <<>>, resample_ratio_original |-> <<>>,
     max_relative_ratio |-> <<>>, chunk_size |-> <<>>, needed_input_size |-> <<>>,
     needed_output_size |-> <<>>, last_index |-> <<>>, resample_ratio |-> <<>>,
     target_ratio |-> <<>>, buffer |-> <<>>, channel_mask |-> <<>>]

\* Sinc::new_with_interpolator: the ratios are validated first, and an error
\* is returned before anything is built; otherwise the resampler is built.
new_with_interpolator(resample_ratio_, max_resample_ratio_relative, interpolation_type, chunk_size_, nbr_channels_, fixed_) ==
    LET valid == validate_ratios(resample_ratio_, max_resample_ratio_relative)
        first_index == RDiv(RNeg(RInt(interpolator_len_)), RInt(2))
        buffer_len_ == calculate_max_input_size(chunk_size_, resample_ratio_,
                           max_resample_ratio_relative, interpolator_len_, fixed_)
                       + 2 * interpolator_len_
    IN  IF valid # "Ok"
        THEN [ret |-> [kind |-> valid], self |-> NoSinc]
        ELSE [ret |-> [kind |-> "Ok"],
              self |->
                [fixed |-> fixed_, interpolation |-> interpolation_type,
                 nbr_channels |-> nbr_channels_, max_chunk_size |-> chunk_size_,
                 resample_ratio_original |-> resample_ratio_,
                 max_relative_ratio |-> max_resample_ratio_relative,
                 chunk_size |-> chunk_size_,
                 needed_input_size |->
                     calculate_input_size(chunk_size_, resample_ratio_, resample_ratio_,
                                          first_index, interpolator_len_, fixed_),
                 needed_output_size |->
                     calculate_output_size(chunk_size_, resample_ratio_, resample_ratio_,
                                           first_index, interpolator_len_, fixed_),
                 last_index |-> RInt(-(interpolator_len_ \div 2)),
                 resample_ratio |-> resample_ratio_, target_ratio |-> resample_ratio_,
                 buffer |-> [ch \in 1..nbr_channels_ |-> Zeros(buffer_len_)],
                 channel_mask |-> AllTrue(nbr_channels_)]]

\* Sinc::new: the interpolator is made, and new_with_interpolator does the rest.
new(resample_ratio_, max_resample_ratio_relative, interpolation_type, chunk_size_, nbr_channels_, fixed_) ==
    new_with_interpolator(resample_ratio_, max_resample_ratio_relative,
                          interpolation_type, chunk_size_, nbr_channels_, fixed_)

\* set_resample_ratio rejecting the two boundary ratios.
set_resample_ratio_StrictBounds(self, new_ratio, ramp) ==
    LET rel == RDiv(new_ratio, self.resample_ratio_original)
    IN  IF RLt(RDiv(RInt(1), self.max_relative_ratio), rel)
           /\ RLt(rel, self.max_relative_ratio)
        THEN [self |-> update_lengths(
                         [self EXCEPT
                             !.resample_ratio = IF ramp THEN @ ELSE new_ratio,
                             !.target_ratio = new_ratio]),
              ret |-> [kind |-> "Ok"]]
        ELSE [self |-> self,
              ret |-> [kind |-> "RatioOutOfBounds", provided |-> new_ratio,
                       original |-> self.resample_ratio_original,
                       max_relative_ratio |-> self.max_relative_ratio]]

\* set_resample_ratio jumping to the new ratio whatever ramp says.
set_resample_ratio_IgnoringRamp(self, new_ratio, ramp) ==
    LET rel == RDiv(new_ratio, self.resample_ratio_original)
    IN  IF RLe(RDiv(RInt(1), self.max_relative_ratio), rel)
           /\ RLe(rel, self.max_relative_ratio)
        THEN [self |-> update_lengths(
                         [self EXCEPT
                             !.resample_ratio = new_ratio,
                             !.target_ratio = new_ratio]),
              ret |-> [kind |-> "Ok"]]
        ELSE [self |-> self,
              ret |-> [kind |-> "RatioOutOfBounds", provided |-> new_ratio,
                       original |-> self.resample_ratio_original,
                       max_relative_ratio |-> self.max_relative_ratio]]

\* set_resample_ratio checking the lower bound only.
set_resample_ratio_LowerBoundOnly(self, new_ratio, ramp) ==
    LET rel == RDiv(new_ratio, self.resample_ratio_original)
    IN  IF RLe(RDiv(RInt(1), self.max_relative_ratio), rel)
        THEN [self |-> update_lengths(
                         [self EXCEPT
                             !.resample_ratio = IF ramp THEN @ ELSE new_ratio,
                             !.target_ratio = new_ratio]),
              ret |-> [kind |-> "Ok"]]
        ELSE [self |-> self,
              ret |-> [kind |-> "RatioOutOfBounds", provided |-> new_ratio,
                       original |-> self.resample_ratio_original,
                       max_relative_ratio |-> self.max_relative_ratio]]

\* Sinc::set_resample_ratio: the new resampler and the result.
set_resample_ratio(self, new_ratio, ramp) ==
    LET rel == RDiv(new_ratio, self.resample_ratio_original)
    IN  IF RLe(RDiv(RInt(1), self.max_relative_ratio), rel)
           /\ RLe(rel, self.max_relative_ratio)
        THEN [self |-> update_lengths(
                         [self EXCEPT
                             !.resample_ratio = IF ramp THEN @ ELSE new_ratio,
                             !.target_ratio = new_ratio]),
              ret |-> [kind |-> "Ok"]]
        ELSE [self |-> self,
              ret |-> [kind |-> "RatioOutOfBounds", provided |-> new_ratio,
                       original |-> self.resample_ratio_original,
                       max_relative_ratio |-> self.max_relative_ratio]]

\* Sinc::set_resample_ratio_relative
\* set_resample_ratio_relative scaling the current ratio.
set_resample_ratio_relative_FromCurrent(self, rel_ratio, ramp) ==
    set_resample_ratio(self, RMul(self.resample_ratio, rel_ratio), ramp)

set_resample_ratio_relative(self, rel_ratio, ramp) ==
    set_resample_ratio(self, RMul(self.resample_ratio_original, rel_ratio), ramp)

\* reset leaving chunk_size as the last set_chunk_size made it.
reset_KeepingChunkSize(self) ==
    update_lengths(
        [self EXCEPT
            !.buffer = [ch \in DOMAIN @ |-> Zeros(Len(@[ch]))],
            !.channel_mask = AllTrue(Len(@)),
            !.last_index = RInt(-(interpolator_len_ \div 2)),
            !.resample_ratio = self.resample_ratio_original,
            !.target_ratio = self.resample_ratio_original])

\* reset leaving the samples in the ring buffers.
reset_KeepingHistory(self) ==
    update_lengths(
        [self EXCEPT
            !.channel_mask = AllTrue(Len(@)),
            !.last_index = RInt(-(interpolator_len_ \div 2)),
            !.resample_ratio = self.resample_ratio_original,
            !.target_ratio = self.resample_ratio_original,
            !.chunk_size = self.max_chunk_size])

\* Sinc::reset
reset(self) ==
    update_lengths(
        [self EXCEPT
            !.buffer = [ch \in DOMAIN @ |-> Zeros(Len(@[ch]))],
            !.channel_mask = AllTrue(Len(@)),
            !.last_index = RInt(-(interpolator_len_ \div 2)),
            !.resample_ratio = self.resample_ratio_original,
            !.target_ratio = self.resample_ratio_original,
            !.chunk_size = self.max_chunk_size])

\* set_chunk_size accepting a chunk size of zero.
set_chunk_size_AcceptingZero(self, chunksize) ==
    IF chunksize > self.max_chunk_size
    THEN [self |-> self,
          ret |-> [kind |-> "InvalidChunkSize", max |-> self.max_chunk_size,
                   requested |-> chunksize]]
    ELSE [self |-> [self EXCEPT !.chunk_size = chunksize],
          ret |-> [kind |-> "Ok"]]

\* set_chunk_size accepting a chunk size above max_chunk_size.
set_chunk_size_AcceptingAboveMax(self, chunksize) ==
    IF chunksize = 0
    THEN [self |-> self,
          ret |-> [kind |-> "InvalidChunkSize", max |-> self.max_chunk_size,
                   requested |-> chunksize]]
    ELSE [self |-> [self EXCEPT !.chunk_size = chunksize],
          ret |-> [kind |-> "Ok"]]

\* set_chunk_size ending a pending ramp.
set_chunk_size_EndingRamp(self, chunksize) ==
    IF chunksize > self.max_chunk_size \/ chunksize = 0
    THEN [self |-> self,
          ret |-> [kind |-> "InvalidChunkSize", max |-> self.max_chunk_size,
                   requested |-> chunksize]]
    ELSE [self |-> [self EXCEPT !.chunk_size = chunksize,
                                !.resample_ratio = self.target_ratio],
          ret |-> [kind |-> "Ok"]]

\* Sinc::set_chunk_size: the new resampler and the result.
set_chunk_size(self, chunksize) ==
    IF chunksize > self.max_chunk_size \/ chunksize = 0
    THEN [self |-> self,
          ret |-> [kind |-> "InvalidChunkSize", max |-> self.max_chunk_size,
                   requested |-> chunksize]]
    ELSE [self |-> [self EXCEPT !.chunk_size = chunksize],
          ret |-> [kind |-> "Ok"]]

\* output_delay computed from the ratio a ramp is heading for.
output_delay_FromTarget(self) ==
    TruncUsize(RDiv(RMul(RInt(interpolator_len_), self.target_ratio), RInt(2)))

\* Sinc::output_delay
output_delay(self) ==
    TruncUsize(RDiv(RMul(RInt(interpolator_len_), self.resample_ratio), RInt(2)))

\* ------------------------------------------------------------------------
\* Buffer validation (lib.rs)
\* ------------------------------------------------------------------------
\* FirstShort checking the channels the mask leaves out as well.
FirstShort_IgnoringMask(wave, mask, min_len) ==
    LET short == {c \in 1..Len(wave) : Len(wave[c]) < min_len}
    IN  IF short = {} THEN 0 ELSE CHOOSE c \in short : \A d \in short : c <= d

\* The first channel (numbered from 1) the mask selects that has fewer than
\* min_len frames, 0 if there is none.
FirstShort(wave, mask, min_len) ==
    LET short == {c \in 1..Len(wave) : mask[c] /\ Len(wave[c]) < min_len}
    IN  IF short = {} THEN 0 ELSE CHOOSE c \in short : \A d \in short : c <= d

validate_buffers(wave_in, wave_out_, mask, channels, min_input_len, min_output_len) ==
    IF Len(wave_in) # channels
    THEN [kind |-> "WrongNumberOfInputChannels", expected |-> channels,
          actual |-> Len(wave_in)]
    ELSE IF Len(mask) # channels
    THEN [kind |-> "WrongNumberOfMaskChannels", expected |-> channels,
          actual |-> Len(wave_in)]
    ELSE IF FirstShort(wave_in, mask, min_input_len) # 0
    THEN LET c == FirstShort(wave_in, mask, min_input_len)
         IN  [kind |-> "InsufficientInputBufferSize", channel |-> c - 1,
              expected |-> min_input_len, actual |-> Len(wave_in[c])]
    ELSE IF Len(wave_out_) # channels
    THEN [kind |-> "WrongNumberOfOutputChannels", expected |-> channels,
          actual |-> Len(wave_out_)]
    ELSE IF FirstShort(wave_out_, mask, min_output_len) # 0
    THEN LET c == FirstShort(wave_out_, mask, min_output_len)
         IN  [kind |-> "InsufficientOutputBufferSize", channel |-> c - 1,
              expected |-> min_output_len, actual |-> Len(wave_out_[c])]
    ELSE [kind |-> "Ok"]

\* ------------------------------------------------------------------------
\* Nearest-tap locator and kernel
\* ------------------------------------------------------------------------
\* <<sample offset, sub-filter index>> of the oversampled position q.
TapAt(q, factor) == <<q \div factor, q % factor>>

\* get_nearest_time / get_nearest_times_2, _3, _4
get_nearest_times(kind, idx, factor) ==
    LET p == RFloor(RMul(idx, RInt(factor)))
    IN  CASE kind = "Nearest"   -> <<TapAt(p, factor)>>
          [] kind = "Linear"    -> <<TapAt(p, factor), TapAt(p + 1, factor)>>
          [] kind = "Quadratic" -> <<TapAt(p, factor), TapAt(p + 1, factor),
                                     TapAt(p + 2, factor)>>
          [] kind = "Cubic"     -> <<TapAt(p - 1, factor), TapAt(p, factor),
                                     TapAt(p + 1, factor), TapAt(p + 2, factor)>>

RECURSIVE Pow(_, _)
Pow(b, e) == IF e = 0 THEN 1 ELSE b * Pow(b, e - 1)

\* The polyphase bank: sincs[k + 1][i + 1] is entry i of sub-filter k.  The
\* entries stand for the windowed-sinc coefficients: they are integers, different
\* for every (k, i), and such that the dot product determines the samples under
\* the filter.
sincs ==
    [k \in 1..nbr_sincs |->
        [i \in 1..interpolator_len_ |-> k * Pow(2 * MaxSample + 1, i - 1)]]

\* The sum of wave[j] * sinc[j] over the first i entries.
RECURSIVE DotProduct(_, _, _)
DotProduct(wave, sinc, i) ==
    IF i = 0 THEN 0
    ELSE wave[i] * sinc[i] + DotProduct(wave, sinc, i - 1)

\* SincInterpolator::get_sinc_interpolated(buffer, base, sub_filter_index)
get_sinc_interpolated(buf, base, subindex) ==
    DotProduct(SubSeq(buf, base + 1, base + interpolator_len_), sincs[subindex + 1],
               interpolator_len_)

\* The kernel reads buf[base .. base + len): is that inside the buffer?
\* base is the isize offset + 2 * sinc_len before the cast to usize.
KernelInBounds(buf, base) == base >= 0 /\ base + interpolator_len_ <= Len(buf)

\* ------------------------------------------------------------------------
\* process_into_buffer
\* ------------------------------------------------------------------------
\* The mask argument: NoMask is None, <<m>> is Some(m).
NoMask == <<>>
IsSome(mask_arg) == mask_arg # NoMask
Unwrap(mask_arg) == mask_arg[1]

\* The loop header `t_ratio += t_ratio_increment; idx += t_ratio`, n times:
\* the sequence of [t_ratio, idx] after each iteration.
\* The loop header with its two statements swapped: the cursor advances by
\* the step of the previous iteration.
RECURSIVE CursorSchedule_StepBeforeIncrement(_, _, _, _)
CursorSchedule_StepBeforeIncrement(n, t_ratio, t_ratio_increment, idx) ==
    IF n = 0 THEN <<>>
    ELSE Only({<<[t_ratio |-> t, idx |-> i]>>
               \o CursorSchedule_StepBeforeIncrement(n - 1, t, t_ratio_increment, i) :
                 i \in {RAdd(idx, t_ratio)},
                 t \in {RAdd(t_ratio, t_ratio_increment)}})

RECURSIVE CursorSchedule(_, _, _, _)
CursorSchedule(n, t_ratio, t_ratio_increment, idx) ==
    IF n = 0 THEN <<>>
    ELSE Only({Only({<<[t_ratio |-> t, idx |-> i]>>
                     \o CursorSchedule(n - 1, t, t_ratio_increment, i) :
                       i \in {RAdd(idx, t)}}) :
                 t \in {RAdd(t_ratio, t_ratio_increment)}})

\* Schedule stepping by the ratio, not by its inverse.
Schedule_SteppingByRatio(self) ==
    IF self.needed_output_size = 0 THEN <<>>
    ELSE CursorSchedule(self.needed_output_size, self.resample_ratio, RInt(0),
                        self.last_index)

\* The schedule of the chunk the resampler would process next.
Schedule(self) ==
    IF self.needed_output_size = 0 THEN <<>>
    ELSE LET t_ratio == RDiv(RInt(1), self.resample_ratio)
             t_ratio_end == RDiv(RInt(1), self.target_ratio)
             t_ratio_increment == RDiv(RSub(t_ratio_end, t_ratio),
                                       RInt(self.needed_output_size))
         IN  CursorSchedule(self.needed_output_size, t_ratio, t_ratio_increment,
                            self.last_index)

\* idx * oversampling_factor - floor(idx * oversampling_factor)
Frac(idx, factor) ==
    RSub(RMul(idx, RInt(factor)), RInt(RFloor(RMul(idx, RInt(factor)))))

\* buf.copy_within(needed_input_size .. needed_input_size + 2 * sinc_len, 0)
ShiftHistory(buf, needed) ==
    [i \in 1..Len(buf) |->
        IF i <= 2 * interpolator_len_ THEN buf[needed + i] ELSE buf[i]]

\* buffer[chan][2 * sinc_len .. 2 * sinc_len + needed].copy_from_slice(&wave_in[..needed])
Ingest(buf, wave, needed) ==
    [i \in 1..Len(buf) |->
        IF i > 2 * interpolator_len_ /\ i <= 2 * interpolator_len_ + needed
        THEN wave[i - 2 * interpolator_len_] ELSE buf[i]]

\* The kernel calls of one output frame on one channel buffer: the points.
Points(buf, nearest) ==
    [j \in 1..Len(nearest) |->
        get_sinc_interpolated(buf, nearest[j][1] + 2 * interpolator_len_, nearest[j][2])]

\* The value stored in wave_out[chan][n]: interp_cubic / interp_quad / interp_lin
\* of (frac_offset, points), or the point itself for Nearest.  The polynomial is
\* kept unevaluated, as the pair of its arguments.
OutSample(kind, frac, points) ==
    IF kind = "Nearest" THEN <<points[1]>> ELSE <<frac, points>>

\* The content of a caller's output buffer before anything was written to it.
Untouched == <<>>

\* The ring buffers when the input of an inactive channel is ingested as well.
UpdateBuffer_IngestingEveryChannel(self, mask, wave_in) ==
    [ch \in 1..self.nbr_channels |->
        IF mask[ch] \/ Len(wave_in[ch]) >= self.needed_input_size
        THEN Ingest(ShiftHistory(self.buffer[ch], self.needed_input_size),
                    wave_in[ch], self.needed_input_size)
        ELSE ShiftHistory(self.buffer[ch], self.needed_input_size)]

\* The ring buffers after the history shift and the ingest of the active channels.
UpdateBuffer(self, mask, wave_in) ==
    [ch \in 1..self.nbr_channels |->
        IF mask[ch]
        THEN Ingest(ShiftHistory(self.buffer[ch], self.needed_input_size),
                    wave_in[ch], self.needed_input_size)
        ELSE ShiftHistory(self.buffer[ch], self.needed_input_size)]

\* The taps of every output frame of the chunk.
NearestOf(self, sched) ==
    [n \in 1..Len(sched) |->
        get_nearest_times(self.interpolation, sched[n].idx, nbr_sincs)]

\* Every kernel call of one output frame reads inside the ring buffer.
FrameInBounds(mask, newbuf, taps) ==
    \A j \in 1..Len(taps) : \A ch \in 1..Len(mask) :
        mask[ch] => KernelInBounds(newbuf[ch], taps[j][1] + 2 * interpolator_len_)

\* Every kernel call of the chunk reads inside the ring buffer.
AllInBounds(mask, newbuf, nearest) ==
    \A n \in 1..Len(nearest) : FrameInBounds(mask, newbuf, nearest[n])

\* The output frames written before the first kernel call outside the ring
\* buffer: all of them when every call is inside.
FramesBeforePanic(mask, newbuf, nearest) ==
    IF AllInBounds(mask, newbuf, nearest) THEN Len(nearest)
    ELSE (CHOOSE n \in 1..Len(nearest) :
            /\ ~FrameInBounds(mask, newbuf, nearest[n])
            /\ \A m \in 1..(n - 1) : FrameInBounds(mask, newbuf, nearest[m])) - 1

\* Resample writing the frames of every channel, masked or not.
Resample_AllChannels(self, mask, wave_out_, sched, newbuf, nearest) ==
    LET needed == self.needed_input_size
        nout == self.needed_output_size
        idx == IF nout = 0 THEN self.last_index ELSE sched[nout].idx
    IN  [self |-> update_lengths(
                    [self EXCEPT
                        !.channel_mask = mask,
                        !.buffer = newbuf,
                        !.last_index = RSub(idx, RInt(needed)),
                        !.resample_ratio = self.target_ratio]),
         wave_out |->
            [ch \in 1..self.nbr_channels |->
                [n \in 1..Len(wave_out_[ch]) |->
                    IF n <= nout
                    THEN OutSample(self.interpolation,
                                   Frac(sched[n].idx, nbr_sincs),
                                   Points(newbuf[ch], nearest[n]))
                    ELSE wave_out_[ch][n]]],
         ret |-> [kind |-> "Ok", in_frames |-> needed, out_frames |-> nout]]

\* Resample storing the cursor without re-anchoring it.
Resample_KeepingCursor(self, mask, wave_out_, sched, newbuf, nearest) ==
    LET r == Resample_AllChannels(self, mask, wave_out_, sched, newbuf, nearest)
    IN  [self |-> update_lengths([r.self EXCEPT
                    !.last_index = RAdd(r.self.last_index, RInt(1))]),
         wave_out |-> [ch \in 1..self.nbr_channels |->
                          IF mask[ch] THEN r.wave_out[ch] ELSE wave_out_[ch]],
         ret |-> r.ret]

\* Resample leaving the cursor where it was after a chunk without output.
Resample_StallingWithoutOutput(self, mask, wave_out_, sched, newbuf, nearest) ==
    LET r == Resample_AllChannels(self, mask, wave_out_, sched, newbuf, nearest)
    IN  [self |-> IF self.needed_output_size = 0
                  THEN update_lengths([r.self EXCEPT !.last_index = self.last_index])
                  ELSE r.self,
         wave_out |-> [ch \in 1..self.nbr_channels |->
                          IF mask[ch] THEN r.wave_out[ch] ELSE wave_out_[ch]],
         ret |-> r.ret]

\* Resample leaving the ramp pending.
Resample_KeepingRamp(self, mask, wave_out_, sched, newbuf, nearest) ==
    LET r == Resample_AllChannels(self, mask, wave_out_, sched, newbuf, nearest)
    IN  [self |-> update_lengths([r.self EXCEPT !.resample_ratio = self.resample_ratio]),
         wave_out |-> [ch \in 1..self.nbr_channels |->
                          IF mask[ch] THEN r.wave_out[ch] ELSE wave_out_[ch]],
         ret |-> r.ret]

\* Resample returning the sizes read after update_lengths.
Resample_ReturningNextSizes(self, mask, wave_out_, sched, newbuf, nearest) ==
    LET r == Resample_AllChannels(self, mask, wave_out_, sched, newbuf, nearest)
        m == [r.self EXCEPT !.channel_mask = mask]
    IN  [self |-> m,
         wave_out |-> [ch \in 1..self.nbr_channels |->
                          IF mask[ch] THEN r.wave_out[ch] ELSE wave_out_[ch]],
         ret |-> [kind |-> "Ok", in_frames |-> m.needed_input_size,
                  out_frames |-> m.needed_output_size]]

\* The output loop and the bookkeeping after it, on the updated buffers.
Resample(self, mask, wave_out_, sched, newbuf, nearest) ==
    LET needed == self.needed_input_size
        nout == self.needed_output_size
        idx == IF nout = 0 THEN self.last_index ELSE sched[nout].idx
    IN  IF ~AllInBounds(mask, newbuf, nearest)
        THEN \* a kernel call outside the ring buffer: the buffers are updated
             \* and the frames before it are written, the cursor is not stored
             [self |-> [self EXCEPT !.channel_mask = mask, !.buffer = newbuf],
              wave_out |->
                 [ch \in 1..self.nbr_channels |->
                     IF mask[ch]
                     THEN [n \in 1..Len(wave_out_[ch]) |->
                             IF n <= FramesBeforePanic(mask, newbuf, nearest)
                             THEN OutSample(self.interpolation,
                                            Frac(sched[n].idx, nbr_sincs),
                                            Points(newbuf[ch], nearest[n]))
                             ELSE wave_out_[ch][n]]
                     ELSE wave_out_[ch]],
              ret |-> [kind |-> "Panic"]]
        ELSE
        [self |-> update_lengths(
                    [self EXCEPT
                        !.channel_mask = mask,
                        !.buffer = newbuf,
                        !.last_index = RSub(idx, RInt(needed)),
                        !.resample_ratio = self.target_ratio]),
         wave_out |->
            [ch \in 1..self.nbr_channels |->
                IF mask[ch]
                THEN [n \in 1..Len(wave_out_[ch]) |->
                        IF n <= nout
                        THEN OutSample(self.interpolation,
                                       Frac(sched[n].idx, nbr_sincs),
                                       Points(newbuf[ch], nearest[n]))
                        ELSE wave_out_[ch][n]]
                ELSE wave_out_[ch]],
         ret |-> [kind |-> "Ok", in_frames |-> needed, out_frames |-> nout]]

\* process_into_buffer finishing the pending ramp before it validates.
process_into_buffer_UpdatingBeforeValidation(self, wave_in, wave_out_, active_channels_mask) ==
    LET mask == IF IsSome(active_channels_mask) THEN Unwrap(active_channels_mask)
                ELSE AllTrue(Len(self.channel_mask))
        valid == validate_buffers(wave_in, wave_out_, mask, self.nbr_channels,
                                  self.needed_input_size, self.needed_output_size)
        early == update_lengths([self EXCEPT !.channel_mask = mask,
                                             !.resample_ratio = self.target_ratio])
    IN  IF valid.kind # "Ok"
        THEN [self |-> early, wave_out |-> wave_out_, ret |-> valid]
        ELSE Resample(self, mask, wave_out_, Schedule(self),
                      UpdateBuffer(self, mask, wave_in), NearestOf(self, Schedule(self)))

\* process_into_buffer keeping the mask of the previous call when none is given.
process_into_buffer_KeepingMask(self, wave_in, wave_out_, active_channels_mask) ==
    IF IsSome(active_channels_mask)
       /\ Len(Unwrap(active_channels_mask)) # Len(self.channel_mask)
    THEN [self |-> self, wave_out |-> wave_out_, ret |-> [kind |-> "Panic"]]
    ELSE
    LET mask == IF IsSome(active_channels_mask) THEN Unwrap(active_channels_mask)
                ELSE self.channel_mask
        valid == validate_buffers(wave_in, wave_out_, mask, self.nbr_channels,
                                  self.needed_input_size, self.needed_output_size)
    IN  IF valid.kind # "Ok"
        THEN [self |-> [self EXCEPT !.channel_mask = mask], wave_out |-> wave_out_,
              ret |-> valid]
        ELSE IF self.needed_input_size + 2 * interpolator_len_ > buffer_len(self)
        THEN [self |-> [self EXCEPT !.channel_mask = mask], wave_out |-> wave_out_,
              ret |-> [kind |-> "Panic"]]
        ELSE Only({Only({Resample(self, mask, wave_out_, sched, newbuf, nearest) :
                            nearest \in {NearestOf(self, sched)}}) :
                      sched \in {Schedule(self)},
                      newbuf \in {UpdateBuffer(self, mask, wave_in)}})

process_into_buffer(self, wave_in, wave_out_, active_channels_mask) ==
    IF IsSome(active_channels_mask)
       /\ Len(Unwrap(active_channels_mask)) # Len(self.channel_mask)
    THEN \* copy_from_slice panics on slices of different lengths
         [self |-> self, wave_out |-> wave_out_, ret |-> [kind |-> "Panic"]]
    ELSE
    LET mask == IF IsSome(active_channels_mask) THEN Unwrap(active_channels_mask)
                ELSE AllTrue(Len(self.channel_mask))
        valid == validate_buffers(wave_in, wave_out_, mask, self.nbr_channels,
                                  self.needed_input_size, self.needed_output_size)
    IN  IF valid.kind # "Ok"
        THEN [self |-> [self EXCEPT !.channel_mask = mask], wave_out |-> wave_out_,
              ret |-> valid]
        ELSE IF self.needed_input_size + 2 * interpolator_len_ > buffer_len(self)
        THEN \* copy_within on a range outside the ring buffer
             [self |-> [self EXCEPT !.channel_mask = mask], wave_out |-> wave_out_,
              ret |-> [kind |-> "Panic"]]
        ELSE Only({Only({Resample(self, mask, wave_out_, sched, newbuf, nearest) :
                            nearest \in {NearestOf(self, sched)}}) :
                      sched \in {Schedule(self)},
                      newbuf \in {UpdateBuffer(self, mask, wave_in)}})

\* PadChannel taking the last frames of a channel that is longer than needed.
PadChannel_TakingLastFrames(wave_in, ch, frames) ==
    IF IsSome(wave_in) /\ ch <= Len(Unwrap(wave_in))
    THEN LET ch_input == Unwrap(wave_in)[ch]
             frames_in == IF Len(ch_input) > frames THEN frames ELSE Len(ch_input)
         IN  IF frames_in > 0
             THEN [j \in 1..frames |->
                    IF j <= frames_in THEN ch_input[Len(ch_input) - frames_in + j] ELSE 0]
             ELSE <<>>
    ELSE [j \in 1..frames |-> 0]

\* One channel of the temporary input of process_partial_into_buffer: zeros of
\* the needed length, overwritten by the frames given; cleared when the
\* channel given has no frames.  A channel the caller did not give stays zeros.
PadChannel(wave_in, ch, frames) ==
    IF IsSome(wave_in) /\ ch <= Len(Unwrap(wave_in))
    THEN LET ch_input == Unwrap(wave_in)[ch]
             frames_in == IF Len(ch_input) > frames THEN frames ELSE Len(ch_input)
         IN  IF frames_in > 0
             THEN [j \in 1..frames |-> IF j <= frames_in THEN ch_input[j] ELSE 0]
             ELSE <<>>
    ELSE [j \in 1..frames |-> 0]

process_partial_into_buffer(self, wave_in, wave_out_, active_channels_mask) ==
    LET frames == input_frames_next(self)
        wave_in_padded == [ch \in 1..self.nbr_channels |-> PadChannel(wave_in, ch, frames)]
    IN  process_into_buffer(self, wave_in_padded, wave_out_, active_channels_mask)

\* The output buffer process allocates: zeros for an active channel, nothing
\* for an inactive one.
AllocatedOutput(channels, frames, active_channels_mask) ==
    [chan \in 1..channels |->
        IF IsSome(active_channels_mask) /\ ~Unwrap(active_channels_mask)[chan]
        THEN <<>> ELSE [n \in 1..frames |-> 0]]

\* process allocating frames for every channel, active or not.
process_AllocatingEveryChannel(self, wave_in, active_channels_mask) ==
    LET r == process_into_buffer(self, wave_in,
                 [chan \in 1..self.nbr_channels |->
                     [n \in 1..output_frames_next(self) |-> 0]],
                 active_channels_mask)
    IN  IF r.ret.kind = "Ok" THEN [self |-> r.self, wave_out |-> r.wave_out, ret |-> [kind |-> "Ok"]]
        ELSE [self |-> r.self, wave_out |-> <<>>, ret |-> r.ret]

\* Resampler::process: the output is allocated, filled by process_into_buffer
\* and truncated to the frames produced.
process(self, wave_in, active_channels_mask) ==
    LET frames == output_frames_next(self)
        channels == self.nbr_channels
    IN  IF IsSome(active_channels_mask) /\ Len(Unwrap(active_channels_mask)) < channels
        THEN \* mask[chan] indexes past the end of the mask
             [self |-> self, wave_out |-> <<>>, ret |-> [kind |-> "Panic"]]
        ELSE Only({IF r.ret.kind = "Ok"
                   THEN [self |-> r.self,
                         wave_out |-> [chan \in 1..channels |->
                            SubSeq(r.wave_out[chan], 1,
                                   IF Len(r.wave_out[chan]) < r.ret.out_frames
                                   THEN Len(r.wave_out[chan]) ELSE r.ret.out_frames)],
                         ret |-> [kind |-> "Ok"]]
                   ELSE [self |-> r.self, wave_out |-> <<>>, ret |-> r.ret] :
                r \in {process_into_buffer(self, wave_in,
                           AllocatedOutput(channels, frames, active_channels_mask),
                           active_channels_mask)}})

\* Resampler::process_partial: the output is allocated, filled by
\* process_partial_into_buffer and truncated to the frames produced.
process_partial(self, wave_in, active_channels_mask) ==
    LET frames == output_frames_next(self)
        channels == self.nbr_channels
    IN  IF IsSome(active_channels_mask) /\ Len(Unwrap(active_channels_mask)) < channels
        THEN \* mask[chan] indexes past the end of the mask
             [self |-> self, wave_out |-> <<>>, ret |-> [kind |-> "Panic"]]
        ELSE Only({IF r.ret.kind = "Ok"
                   THEN [self |-> r.self,
                         wave_out |-> [chan \in 1..channels |->
                            SubSeq(r.wave_out[chan], 1,
                                   IF Len(r.wave_out[chan]) < r.ret.out_frames
                                   THEN Len(r.wave_out[chan]) ELSE r.ret.out_frames)],
                         ret |-> [kind |-> "Ok"]]
                   ELSE [self |-> r.self, wave_out |-> <<>>, ret |-> r.ret] :
                r \in {process_partial_into_buffer(self, wave_in,
                           AllocatedOutput(channels, frames, active_channels_mask),
                           active_channels_mask)}})

\* ------------------------------------------------------------------------
\* The caller's inputs
\* ------------------------------------------------------------------------
Fixeds == {"Input", "Output"}
InterpolationTypes == {"Cubic", "Quadratic", "Linear", "Nearest"}
OriginalRatios == {RInt(1)}
MaxRelativeRatios == {RInt(4)}

\* Ratios a caller asks for: the original, both limits, and one beyond each.
RatioInputs(self) ==
    {RMul(self.resample_ratio_original, f) :
        f \in {RInt(1), self.max_relative_ratio,
               RDiv(RInt(1), self.max_relative_ratio),
               RMul(RInt(2), self.max_relative_ratio),
               RDiv(RInt(1), RMul(RInt(2), self.max_relative_ratio))}}
\* Relative ratios given to set_resample_ratio_relative: the upper boundary, a
\* ratio inside the bounds and one below the lower bound.
RelativeRatioInputs(self) ==
    {self.max_relative_ratio, RDiv(RInt(1), RInt(2)),
     RDiv(RInt(1), RMul(RInt(2), self.max_relative_ratio))}

\* Chunk sizes given to the constructor.
ChunkSizes == {1, MaxChunk}

\* Frame j (from 1) of channel ch of the input chunk of call number k: a
\* sawtooth over -MaxSample..MaxSample, shifted by the channel and the call.
InSample(k, ch, j) == ((j + ch + k) % (2 * MaxSample + 1)) - MaxSample

\* Shapes of a caller's buffer, relative to the frames the resampler needs:
\* every channel exactly as long, one frame longer, the first channel one frame
\* short, the last channel empty, one channel missing, one channel too many.
Shapes == {"exact", "long", "short_first", "empty_last", "fewer", "more"}
ShapeChannels(shape, channels) ==
    CASE shape = "fewer" -> channels - 1
      [] shape = "more" -> channels + 1
      [] OTHER -> channels
ShapeLen(shape, ch, channels, frames) ==
    CASE shape = "long" -> frames + 1
      [] shape \in {"long_first", "long_first_empty_last", "long_first_short_last"}
            /\ ch = 1 -> frames + 1
      [] shape = "long_first_empty_last" /\ ch = channels -> 0
      [] shape = "long_first_short_last" /\ ch = channels
            -> IF frames = 0 THEN 0 ELSE frames - 1
      [] shape = "short_first" /\ ch = 1 -> IF frames = 0 THEN 0 ELSE frames - 1
      [] shape = "empty_last" /\ ch = channels -> 0
      [] OTHER -> frames

MakeWaveIn(shape, k, channels, frames) ==
    [ch \in 1..ShapeChannels(shape, channels) |->
        [j \in 1..ShapeLen(shape, ch, channels, frames) |-> InSample(k, ch, j)]]
MakeWaveOut(shape, channels, frames) ==
    [ch \in 1..ShapeChannels(shape, channels) |->
        [j \in 1..ShapeLen(shape, ch, channels, frames) |-> Untouched]]

\* Pairs of input and output shapes: at most one of the two is defective, or
\* both are, in the combinations that decide which error is reported.
ShapePairs ==
    {p \in Shapes \X Shapes :
        \/ p[1] = "exact" \/ p[2] = "exact"
        \/ p \in {<<"short_first", "fewer">>, <<"fewer", "more">>,
                  <<"short_first", "short_first">>}}

\* Masks of the right length (None, and every selection of channels), and
\* masks one entry short or long.
Masks(channels) == {NoMask} \cup {<<m>> : m \in [1..channels -> BOOLEAN]}
WrongLengthMasks(channels) == {<<AllTrue(channels - 1)>>, <<AllTrue(channels + 1)>>}

\* Buffers given with a mask of a wrong length.
WrongLengthMaskPairs == {<<"exact", "exact">>, <<"fewer", "exact">>, <<"exact", "more">>}

MakeArgs(self, p, k, m) ==
    [wave_in |-> MakeWaveIn(p[1], k, self.nbr_channels, self.needed_input_size),
     wave_out |-> MakeWaveOut(p[2], self.nbr_channels, self.needed_output_size),
     mask |-> m]

\* Arguments of call number k: every shape pair with every mask of the right
\* length, and masks of a wrong length with buffers of the right and of a wrong
\* number of channels.
ProcessArgs(self, k) ==
    {MakeArgs(self, p, k, m) : p \in ShapePairs, m \in Masks(self.nbr_channels)}
    \cup {MakeArgs(self, p, k, m) :
        p \in WrongLengthMaskPairs, m \in WrongLengthMasks(self.nbr_channels)}

\* Chunk sizes given to set_chunk_size: none, every size up to the maximum, and
\* one frame more.
ChunkSizeInputs(self) == 0..(self.max_chunk_size + 1)

\* ------------------------------------------------------------------------
\* Initial state and actions
\* ------------------------------------------------------------------------
SelfIs(s) ==
    /\ fixed = s.fixed /\ interpolation = s.interpolation
    /\ nbr_channels = s.nbr_channels /\ max_chunk_size = s.max_chunk_size
    /\ resample_ratio_original = s.resample_ratio_original
    /\ max_relative_ratio = s.max_relative_ratio
    /\ chunk_size = s.chunk_size /\ needed_input_size = s.needed_input_size
    /\ needed_output_size = s.needed_output_size /\ last_index = s.last_index
    /\ resample_ratio = s.resample_ratio /\ target_ratio = s.target_ratio
    /\ buffer = s.buffer /\ channel_mask = s.channel_mask

SelfBecomes(s) ==
    /\ chunk_size' = s.chunk_size /\ needed_input_size' = s.needed_input_size
    /\ needed_output_size' = s.needed_output_size /\ last_index' = s.last_index
    /\ resample_ratio' = s.resample_ratio /\ target_ratio' = s.target_ratio
    /\ buffer' = s.buffer /\ channel_mask' = s.channel_mask
    /\ UNCHANGED params

Init ==
    /\ \E fixed_ \in Fixeds, interpolation_type \in InterpolationTypes,
          chunk_size_ \in ChunkSizes, resample_ratio_ \in OriginalRatios,
          max_resample_ratio_relative \in MaxRelativeRatios :
            \E r \in {new(resample_ratio_, max_resample_ratio_relative,
                          interpolation_type, chunk_size_, NbrChannels, fixed_)} :
                /\ r.ret.kind = "Ok"
                /\ SelfIs(r.self)
    /\ call = [op |-> "new"]
    /\ ret = [kind |-> "Ok"]
    /\ wave_out = <<>>
    /\ nops = 0
    /\ total_in = 0
    /\ total_out = 0

\* A call can be made as long as no earlier call has panicked.
Alive == ret.kind # "Panic"

\* One call of each trait method, on given arguments.
CallProcess(self, a) ==
    \E r \in {process_into_buffer(self, a.wave_in, a.wave_out, a.mask)} :
        /\ Alive
        /\ SelfBecomes(r.self)
        /\ call' = [op |-> "process_into_buffer", wave_in |-> a.wave_in,
                    wave_out |-> a.wave_out, mask |-> a.mask]
        /\ ret' = r.ret
        /\ wave_out' = r.wave_out
        /\ nops' = nops + 1
        /\ UNCHANGED totals

CallSetResampleRatio(self, new_ratio, ramp) ==
    \E r \in {set_resample_ratio(self, new_ratio, ramp)} :
        /\ Alive
        /\ SelfBecomes(r.self)
        /\ call' = [op |-> "set_resample_ratio", new_ratio |-> new_ratio,
                    ramp |-> ramp]
        /\ ret' = r.ret
        /\ nops' = nops + 1
        /\ UNCHANGED <<wave_out, totals>>

CallSetResampleRatioRelative(self, rel_ratio, ramp) ==
    \E r \in {set_resample_ratio_relative(self, rel_ratio, ramp)} :
        /\ Alive
        /\ SelfBecomes(r.self)
        /\ call' = [op |-> "set_resample_ratio_relative", rel_ratio |-> rel_ratio,
                    ramp |-> ramp]
        /\ ret' = r.ret
        /\ nops' = nops + 1
        /\ UNCHANGED <<wave_out, totals>>

CallSetChunkSize(self, chunksize) ==
    \E r \in {set_chunk_size(self, chunksize)} :
        /\ Alive
        /\ SelfBecomes(r.self)
        /\ call' = [op |-> "set_chunk_size", chunksize |-> chunksize]
        /\ ret' = r.ret
        /\ nops' = nops + 1
        /\ UNCHANGED <<wave_out, totals>>

CallReset(self) ==
    /\ Alive
    /\ \E r \in {reset(self)} : SelfBecomes(r)
    /\ call' = [op |-> "reset"]
    /\ ret' = [kind |-> "Ok"]
    /\ nops' = nops + 1
    /\ UNCHANGED <<wave_out, totals>>

\* ---- Spec: every method, on well-formed and on defective arguments ----
Process ==
    /\ nops < MaxOps
    /\ \E self \in {Self} : \E a \in ProcessArgs(self, nops) : CallProcess(self, a)

SetResampleRatio ==
    /\ nops < MaxOps
    /\ \E self \in {Self} : \E new_ratio \in RatioInputs(self), ramp \in BOOLEAN :
        CallSetResampleRatio(self, new_ratio, ramp)

SetResampleRatioRelative ==
    /\ nops < MaxOps
    /\ \E self \in {Self} : \E rel_ratio \in RelativeRatioInputs(self), ramp \in BOOLEAN :
        CallSetResampleRatioRelative(self, rel_ratio, ramp)

SetChunkSize ==
    /\ nops < MaxOps
    /\ \E self \in {Self} : \E chunksize \in ChunkSizeInputs(self) :
        CallSetChunkSize(self, chunksize)

Reset ==
    /\ nops < MaxOps
    /\ \E self \in {Self} : CallReset(self)

Next ==
    \/ Process
    \/ SetResampleRatio
    \/ SetResampleRatioRelative
    \/ SetChunkSize
    \/ Reset

Spec == Init /\ [][Next]_vars

\* ---- StreamSpec: a caller that only makes calls the resampler accepts ----
StreamArgs(self, k) == {MakeArgs(self, <<"exact", "exact">>, k, NoMask)}

StreamRatios(self) ==
    {r \in RatioInputs(self) : set_resample_ratio(self, r, FALSE).ret.kind = "Ok"}

StreamProcess ==
    /\ nops < MaxStreamOps
    /\ \E self \in {Self} : \E a \in StreamArgs(self, nops) : CallProcess(self, a)

StreamSetResampleRatio ==
    /\ nops < MaxStreamOps
    /\ \E self \in {Self} : \E new_ratio \in StreamRatios(self), ramp \in BOOLEAN :
        CallSetResampleRatio(self, new_ratio, ramp)

StreamSetChunkSize ==
    /\ nops < MaxStreamOps
    /\ \E self \in {Self} : \E chunksize \in 1..max_chunk_size :
        CallSetChunkSize(self, chunksize)

StreamReset ==
    /\ nops < MaxStreamOps
    /\ \E self \in {Self} : CallReset(self)

StreamNext ==
    \/ StreamProcess
    \/ StreamSetResampleRatio
    \/ StreamSetChunkSize
    \/ StreamReset

StreamSpec == Init /\ [][StreamNext]_vars

\* ---- PartialSpec: the end of a stream, flushed with partial chunks ----
\* Shapes of the input of a partial chunk: those above, and the first channel
\* alone one frame longer, with the last channel as long as needed, empty, or
\* one frame short.
PartialShapes ==
    Shapes \cup {"long_first", "long_first_empty_last", "long_first_short_last"}
\* Inputs of process_partial_into_buffer: none, or a buffer of each shape.
PartialInputs(self, k) ==
    {NoMask} \cup {<<MakeWaveIn(shape, k, self.nbr_channels, self.needed_input_size)>> :
                      shape \in PartialShapes}
PartialArgs(self, k) ==
    {[wave_in |-> w,
      wave_out |-> MakeWaveOut("exact", self.nbr_channels, self.needed_output_size),
      mask |-> m] : w \in PartialInputs(self, k), m \in Masks(self.nbr_channels)}

CallProcessPartial(self, a) ==
    \E r \in {process_partial_into_buffer(self, a.wave_in, a.wave_out, a.mask)} :
        /\ Alive
        /\ SelfBecomes(r.self)
        /\ call' = [op |-> "process_partial_into_buffer", wave_in |-> a.wave_in,
                    wave_out |-> a.wave_out, mask |-> a.mask]
        /\ ret' = r.ret
        /\ wave_out' = r.wave_out
        /\ nops' = nops + 1
        /\ UNCHANGED totals

PartialProcess ==
    /\ nops < MaxPartialOps
    /\ \E self \in {Self} : \E a \in StreamArgs(self, nops) : CallProcess(self, a)

PartialProcessPartial ==
    /\ nops < MaxPartialOps
    /\ \E self \in {Self} : \E a \in PartialArgs(self, nops) : CallProcessPartial(self, a)

PartialNext ==
    \/ PartialProcess
    \/ PartialProcessPartial

PartialSpec == Init /\ [][PartialNext]_vars

\* ---- RecoverSpec: a caller that gets buffers wrong and tries again ----
\* Buffers with one defect at most.
RecoverShapePairs ==
    {<<"exact", "exact">>, <<"short_first", "exact">>, <<"exact", "short_first">>,
     <<"fewer", "exact">>, <<"exact", "more">>}
RecoverArgs(self, k) ==
    {MakeArgs(self, p, k, m) : p \in RecoverShapePairs, m \in Masks(self.nbr_channels)}

RecoverProcess ==
    /\ nops < MaxRecoverOps
    /\ \E self \in {Self} : \E a \in RecoverArgs(self, nops) : CallProcess(self, a)

RecoverSetResampleRatio ==
    /\ nops < MaxRecoverOps
    /\ \E self \in {Self} : \E new_ratio \in StreamRatios(self), ramp \in BOOLEAN :
        CallSetResampleRatio(self, new_ratio, ramp)

RecoverNext ==
    \/ RecoverProcess
    \/ RecoverSetResampleRatio

RecoverSpec == Init /\ [][RecoverNext]_vars

\* ---- CursorSpec: a stream with masked channels and rejected calls ----
\* Buffers as long as needed, or the first channel of the input one frame
\* short: an error when that channel is active.
CursorShapePairs == {<<"exact", "exact">>, <<"short_first", "exact">>}
\* No mask, the first channel alone active, the first channel alone inactive.
CursorMasks(channels) ==
    {NoMask, <<[ch \in 1..channels |-> ch = 1]>>, <<[ch \in 1..channels |-> ch # 1]>>}
CursorArgs(self, k) ==
    {MakeArgs(self, p, k, m) : p \in CursorShapePairs, m \in CursorMasks(self.nbr_channels)}
\* Ratios asked for: the original, the upper limit, and one beyond it.
CursorRatios(self) ==
    {RMul(self.resample_ratio_original, f) :
        f \in {RInt(1), self.max_relative_ratio,
               RMul(RInt(2), self.max_relative_ratio)}}
\* Chunk sizes asked for: none, one frame, the maximum.
CursorChunkSizes(self) == {0, 1, self.max_chunk_size}

CursorProcess ==
    /\ nops < MaxCursorOps
    /\ \E self \in {Self} : \E a \in CursorArgs(self, nops) : CallProcess(self, a)

CursorSetResampleRatio ==
    /\ nops < MaxCursorOps
    /\ \E self \in {Self} : \E new_ratio \in CursorRatios(self), ramp \in BOOLEAN :
        CallSetResampleRatio(self, new_ratio, ramp)

CursorSetChunkSize ==
    /\ nops < MaxCursorOps
    /\ \E self \in {Self} : \E chunksize \in CursorChunkSizes(self) :
        CallSetChunkSize(self, chunksize)

CursorNext ==
    \/ CursorProcess
    \/ CursorSetResampleRatio
    \/ CursorSetChunkSize

CursorSpec == Init /\ [][CursorNext]_vars

\* ---- ConstructSpec: construction with valid and invalid ratios ----
\* Ratios given to the constructor: negative, zero, below and above one.
ConstructRatios == {RInt(-1), RInt(0), RDiv(RInt(1), RInt(2)), RInt(1), RDiv(RInt(3), RInt(2))}
\* Maximum relative ratios given: zero, below one, exactly one, above one.
ConstructRelativeRatios == {RInt(0), RDiv(RInt(1), RInt(2)), RInt(1), RInt(2)}

ConstructInit ==
    /\ \E fixed_ \in Fixeds, interpolation_type \in InterpolationTypes,
          chunk_size_ \in ChunkSizes, resample_ratio_ \in ConstructRatios,
          max_resample_ratio_relative \in ConstructRelativeRatios :
            \E r \in {new(resample_ratio_, max_resample_ratio_relative,
                          interpolation_type, chunk_size_, NbrChannels, fixed_)} :
                /\ SelfIs(r.self)
                /\ ret = r.ret
                /\ call = [op |-> "new", resample_ratio |-> resample_ratio_,
                           max_resample_ratio_relative |-> max_resample_ratio_relative,
                           interpolation_type |-> interpolation_type,
                           chunk_size |-> chunk_size_, fixed |-> fixed_]
    /\ wave_out = <<>>
    /\ nops = 0
    /\ total_in = 0
    /\ total_out = 0

\* Construction returned a resampler.
Constructed == ret.kind \notin {"InvalidRatio", "InvalidRelativeRatio"}

ConstructProcess ==
    /\ nops < MaxConstructOps
    /\ Constructed
    /\ \E self \in {Self} : \E a \in StreamArgs(self, nops) : CallProcess(self, a)

ConstructNext == ConstructProcess

ConstructSpec == ConstructInit /\ [][ConstructNext]_vars

\* ---- AllocSpec: a caller that lets the resampler allocate the output ----
AllocArgs(self, k) ==
    {[wave_in |-> MakeWaveIn(shape, k, self.nbr_channels, self.needed_input_size),
      mask |-> m] :
        shape \in Shapes,
        m \in Masks(self.nbr_channels) \cup WrongLengthMasks(self.nbr_channels)}

CallProcessAllocating(self, a) ==
    \E r \in {process(self, a.wave_in, a.mask)} :
        /\ Alive
        /\ SelfBecomes(r.self)
        /\ call' = [op |-> "process", wave_in |-> a.wave_in, mask |-> a.mask]
        /\ ret' = r.ret
        /\ wave_out' = r.wave_out
        /\ nops' = nops + 1
        /\ UNCHANGED totals

AllocProcess ==
    /\ nops < MaxAllocOps
    /\ \E self \in {Self} : \E a \in AllocArgs(self, nops) : CallProcessAllocating(self, a)

\* Inputs of process_partial: none, a full chunk, a chunk whose first channel
\* is one frame short and a chunk with one channel missing, with every mask.
AllocPartialShapes == {"exact", "short_first", "fewer"}
AllocPartialArgs(self, k) ==
    {[wave_in |-> w, mask |-> m] :
        w \in {NoMask} \cup {<<MakeWaveIn(shape, k, self.nbr_channels,
                                          self.needed_input_size)>> :
                                shape \in AllocPartialShapes},
        m \in Masks(self.nbr_channels) \cup WrongLengthMasks(self.nbr_channels)}

CallProcessPartialAllocating(self, a) ==
    \E r \in {process_partial(self, a.wave_in, a.mask)} :
        /\ Alive
        /\ SelfBecomes(r.self)
        /\ call' = [op |-> "process_partial", wave_in |-> a.wave_in, mask |-> a.mask]
        /\ ret' = r.ret
        /\ wave_out' = r.wave_out
        /\ nops' = nops + 1
        /\ UNCHANGED totals

AllocProcessPartial ==
    /\ nops < MaxAllocOps
    /\ \E self \in {Self} : \E a \in AllocPartialArgs(self, nops) :
        CallProcessPartialAllocating(self, a)

AllocNext ==
    \/ AllocProcess
    \/ AllocProcessPartial

AllocSpec == Init /\ [][AllocNext]_vars

\* ---- RateSpec: a run of equal calls at the original ratio, measured ----
RateRatios == {RInt(1), RDiv(RInt(3), RInt(2)), RDiv(RInt(2), RInt(3))}

make_buffer(channels, capacity, filled) ==
    [ch \in 1..channels |-> IF filled THEN [j \in 1..capacity |-> 0] ELSE <<>>]
input_buffer_allocate(self, filled) ==
    make_buffer(self.nbr_channels, input_frames_max(self), filled)
output_buffer_allocate(self, filled) ==
    make_buffer(self.nbr_channels, output_frames_max(self), filled)

\* The interpolation of the repository's rate tests, and the one with a single
\* tap: the taps of the other two lie within those of the cubic one.
RateInterpolationTypes == {"Nearest", "Cubic"}

RateInit ==
    /\ \E fixed_ \in Fixeds, interpolation_type \in RateInterpolationTypes,
          chunk_size_ \in ChunkSizes, resample_ratio_ \in RateRatios :
            \E r \in {new(resample_ratio_, RInt(1), interpolation_type,
                          chunk_size_, NbrChannels, fixed_)} :
                /\ r.ret.kind = "Ok"
                /\ SelfIs(r.self)
    /\ call = [op |-> "new"]
    /\ ret = [kind |-> "Ok"]
    /\ wave_out = <<>>
    /\ nops = 0
    /\ total_in = 0
    /\ total_out = 0

\* One repetition: the call on zero-filled buffers of the maximum sizes and
\* without a mask, its counts added to the totals when it succeeds.
RateProcess ==
    /\ nops < MaxRunOps
    /\ Alive
    /\ \E self \in {Self} :
        \E input \in {input_buffer_allocate(self, TRUE)},
           output \in {output_buffer_allocate(self, TRUE)} :
        \E r \in {process_into_buffer(self, input, output, NoMask)} :
            /\ SelfBecomes(r.self)
            /\ call' = [op |-> "process_into_buffer", wave_in |-> input,
                        wave_out |-> output, mask |-> NoMask]
            /\ ret' = r.ret
            /\ wave_out' = r.wave_out
            /\ nops' = nops + 1
            /\ total_in' = IF r.ret.kind = "Ok" THEN total_in + r.ret.in_frames
                            ELSE total_in
            /\ total_out' = IF r.ret.kind = "Ok" THEN total_out + r.ret.out_frames
                             ELSE total_out

RateNext == RateProcess

RateSpec == RateInit /\ [][RateNext]_vars

\* ---- RepeatSpec: a caller that never stops streaming ----
\* The buffers of a repeated call: of the sizes announced, the input
\* zero-filled.
RepeatArgs(self) ==
    [wave_in |-> make_buffer(self.nbr_channels, input_frames_next(self), TRUE),
     wave_out |-> MakeWaveOut("exact", self.nbr_channels, output_frames_next(self)),
     mask |-> NoMask]

\* The call that is repeated; it is not counted, so it can be made in every
\* state and any number of times.
RepeatProcess ==
    /\ Alive
    /\ \E self \in {Self} : \E a \in {RepeatArgs(self)} :
        \E r \in {process_into_buffer(self, a.wave_in, a.wave_out, a.mask)} :
            /\ SelfBecomes(r.self)
            /\ call' = [op |-> "process_into_buffer", wave_in |-> a.wave_in,
                        wave_out |-> a.wave_out, mask |-> a.mask]
            /\ ret' = r.ret
            /\ wave_out' = r.wave_out
            /\ UNCHANGED <<nops, totals>>

RepeatSetResampleRatio ==
    /\ nops < MaxRepeatOps
    /\ \E self \in {Self} : \E new_ratio \in StreamRatios(self), ramp \in BOOLEAN :
        CallSetResampleRatio(self, new_ratio, ramp)

RepeatSetChunkSize ==
    /\ nops < MaxRepeatOps
    /\ \E self \in {Self} : \E chunksize \in 1..max_chunk_size :
        CallSetChunkSize(self, chunksize)

RepeatReset ==
    /\ nops < MaxRepeatOps
    /\ \E self \in {Self} : CallReset(self)

RepeatNext ==
    \/ RepeatProcess
    \/ RepeatSetResampleRatio
    \/ RepeatSetChunkSize
    \/ RepeatReset

\* The caller keeps calling process_into_buffer: the call is made again
\* whenever it can be.
RepeatSpec == Init /\ [][RepeatNext]_vars /\ WF_vars(RepeatProcess)

\* ------------------------------------------------------------------------
\* Properties
\* ------------------------------------------------------------------------
\* The last call was process_into_buffer.
IsProcess(c) == c.op = "process_into_buffer"
\* The mask a process_into_buffer call works with.
EffectiveMask(c, channels) ==
    IF IsSome(c.mask) THEN Unwrap(c.mask) ELSE AllTrue(channels)
\* wave_in, wave_out and the mask all have one entry per channel.
WellFormed(c, channels) ==
    /\ Len(c.wave_in) = channels
    /\ Len(c.wave_out) = channels
    /\ IsSome(c.mask) => Len(Unwrap(c.mask)) = channels
IsError(r) == r.kind \notin {"Ok", "Panic"}

\* C1: in Fixed::Output mode every successful process_into_buffer call returns
\* out_frames equal to the current chunk_size, whatever calls came before.
C1_OutFramesIsChunkSize ==
    (IsProcess(call) /\ ret.kind = "Ok" /\ fixed = "Output")
        => ret.out_frames = chunk_size

\* C2: in Fixed::Input mode every successful process_into_buffer call returns
\* in_frames equal to the current chunk_size, whatever calls came before.
C2_InFramesIsChunkSize ==
    (IsProcess(call) /\ ret.kind = "Ok" /\ fixed = "Input")
        => ret.in_frames = chunk_size

\* C3: directly after a successful set_chunk_size(n), output_frames_next() is n
\* in Fixed::Output mode and input_frames_next() is n in Fixed::Input mode.
C3_SetChunkSizeRecomputes ==
    (call.op = "set_chunk_size" /\ ret.kind = "Ok")
        => /\ fixed = "Output" => output_frames_next(Self) = call.chunksize
           /\ fixed = "Input" => input_frames_next(Self) = call.chunksize

\* C4: in every reachable state input_frames_next() <= input_frames_max(), that
\* is needed_input_size + 2 * sinc_len <= buffer_len.
C4_InputNextWithinMax ==
    /\ input_frames_next(Self) <= input_frames_max(Self)
    /\ needed_input_size + 2 * interpolator_len_ <= buffer_len(Self)

\* C5: in every reachable state output_frames_next() <= output_frames_max().
C5_OutputNextWithinMax ==
    output_frames_next(Self) <= output_frames_max(Self)

\* C6: a process_into_buffer call that returns an error leaves every field of
\* the resampler as it was before the call.
C6_ErrorLeavesFieldsUnchanged ==
    [][(IsProcess(call') /\ IsError(ret')) => fields' = fields]_vars

\* C7: process_into_buffer called with a mask whose length differs from
\* nbr_channels returns WrongNumberOfMaskChannels as a value.
C7_WrongMaskLengthIsReturned ==
    (IsProcess(call) /\ IsSome(call.mask) /\ Len(Unwrap(call.mask)) # nbr_channels)
        => ret.kind = "WrongNumberOfMaskChannels"

\* C8: process_into_buffer returns WrongNumberOfInputChannels when wave_in has
\* the wrong number of channels, and WrongNumberOfOutputChannels when wave_out
\* has (and wave_in has not), for every mask and every buffer content.
C8_WrongChannelCountsAreReturned ==
    IsProcess(call)
        => /\ Len(call.wave_in) # nbr_channels
                => ret.kind = "WrongNumberOfInputChannels"
           /\ (Len(call.wave_in) = nbr_channels /\ Len(call.wave_out) # nbr_channels)
                => ret.kind = "WrongNumberOfOutputChannels"

\* Some active channel of wave has fewer than min_len frames.
SomeActiveShort(wave, mask, min_len) ==
    \E ch \in 1..Len(wave) : mask[ch] /\ Len(wave[ch]) < min_len

\* C9 as stated: on a call with one entry per channel in wave_in, wave_out and
\* mask, InsufficientInputBufferSize is returned exactly when an active input is
\* shorter than input_frames_next(), and InsufficientOutputBufferSize exactly
\* when an active output is shorter than output_frames_next().
C9_Original ==
    [][(IsProcess(call') /\ WellFormed(call', nbr_channels))
        => LET mask == EffectiveMask(call', nbr_channels)
           IN  /\ ret'.kind = "InsufficientInputBufferSize"
                    <=> SomeActiveShort(call'.wave_in, mask, needed_input_size)
               /\ ret'.kind = "InsufficientOutputBufferSize"
                    <=> SomeActiveShort(call'.wave_out, mask, needed_output_size)]_vars

\* C9 amended: a process_into_buffer call returns InsufficientInputBufferSize
\* exactly when wave_in and the mask have one entry per channel and an active
\* input is shorter than input_frames_next(); it returns
\* InsufficientOutputBufferSize exactly when, besides, no active input is too
\* short, wave_out has one entry per channel and an active output is shorter
\* than output_frames_next().  The lengths of inactive channels and frames
\* beyond the required ones play no part.
C9_InsufficientExactlyWhenActiveShort ==
    [][IsProcess(call')
        => LET mask == EffectiveMask(call', nbr_channels)
               in_checked == /\ Len(call'.wave_in) = nbr_channels
                             /\ Len(mask) = nbr_channels
               in_short == SomeActiveShort(call'.wave_in, mask, needed_input_size)
               out_short == SomeActiveShort(call'.wave_out, mask, needed_output_size)
           IN  /\ ret'.kind = "InsufficientInputBufferSize"
                    <=> (in_checked /\ in_short)
               /\ ret'.kind = "InsufficientOutputBufferSize"
                    <=> (/\ in_checked /\ ~in_short
                         /\ Len(call'.wave_out) = nbr_channels /\ out_short)]_vars

\* An InsufficientOutputBufferSize was returned to a call that masks a channel.
C9_Witness ==
    /\ IsProcess(call) /\ WellFormed(call, nbr_channels)
    /\ ret.kind = "InsufficientOutputBufferSize"
    /\ \E ch \in 1..nbr_channels : ~EffectiveMask(call, nbr_channels)[ch]

\* Inputs that differ from wave_in on the inactive channels only: those
\* channels empty, or filled with other values and one frame longer.  There is
\* none when every channel is active.
InactiveVariants(wave_in, mask) ==
    IF \A ch \in 1..Len(mask) : mask[ch] THEN {}
    ELSE
    {[ch \in 1..Len(wave_in) |-> IF mask[ch] THEN wave_in[ch] ELSE <<>>],
     [ch \in 1..Len(wave_in) |->
        IF mask[ch] THEN wave_in[ch]
        ELSE Append([j \in 1..Len(wave_in[ch]) |-> -wave_in[ch][j]], MaxSample)]}

\* C10: a successful process_into_buffer call leaves the output buffer of every
\* inactive channel as the caller passed it, and returns the same counts and
\* writes the same frames whatever the inactive channels' inputs contain.
C10_InactiveChannelsIgnored ==
    [][(IsProcess(call') /\ ret'.kind = "Ok")
        => LET mask == EffectiveMask(call', nbr_channels)
           IN  /\ \A ch \in 1..nbr_channels :
                    ~mask[ch] => wave_out'[ch] = call'.wave_out[ch]
               /\ \A alt \in InactiveVariants(call'.wave_in, mask) :
                    \E r \in {process_into_buffer(Self, alt, call'.wave_out,
                                                  call'.mask)} :
                        r.ret = ret' /\ r.wave_out = wave_out']_vars

\* Frames were written for one channel while another, with input, was masked.
C10_Witness ==
    /\ IsProcess(call) /\ ret.kind = "Ok" /\ ret.out_frames > 0
    /\ \E ch \in 1..nbr_channels :
        ~EffectiveMask(call, nbr_channels)[ch] /\ call.wave_in[ch] # <<>>
    /\ \E ch \in 1..nbr_channels : EffectiveMask(call, nbr_channels)[ch]

\* ------------------------------------------------------------------------
\* Ratio changes
\* ------------------------------------------------------------------------
IsSetResampleRatio(c) == c.op = "set_resample_ratio"

\* r / resample_ratio_original lies in [1 / max_relative_ratio, max_relative_ratio].
RatioWithinBounds(r) ==
    /\ RLe(RDiv(resample_ratio_original, max_relative_ratio), r)
    /\ RLe(r, RMul(resample_ratio_original, max_relative_ratio))

\* C11: set_resample_ratio with a ratio outside the bounds returns
\* RatioOutOfBounds and leaves every field as it was; a ratio inside the bounds,
\* the two boundary values included, is accepted.
C11_OutOfBoundsRatioRejected ==
    [][IsSetResampleRatio(call')
        => IF RatioWithinBounds(call'.new_ratio)
           THEN ret'.kind = "Ok"
           ELSE ret'.kind = "RatioOutOfBounds" /\ fields' = fields]_vars

\* A ratio was rejected while a ramp was pending.
C11_Witness ==
    /\ IsSetResampleRatio(call) /\ ret.kind = "RatioOutOfBounds"
    /\ resample_ratio # target_ratio

\* C12: an accepted set_resample_ratio(new_ratio, ramp) sets target_ratio to
\* new_ratio, and resample_ratio to new_ratio unless ramp is set, in which case
\* resample_ratio keeps its value.
C12_RampSetsTargetOnly ==
    [][(IsSetResampleRatio(call') /\ ret'.kind = "Ok")
        => /\ target_ratio' = call'.new_ratio
           /\ resample_ratio' = IF call'.ramp THEN resample_ratio
                                 ELSE call'.new_ratio]_vars

\* A ramp to another ratio was accepted.
C12_Witness ==
    /\ IsSetResampleRatio(call) /\ ret.kind = "Ok" /\ call.ramp
    /\ target_ratio = call.new_ratio /\ resample_ratio # target_ratio

\* C13: in every reachable state resample_ratio and target_ratio lie in
\* [resample_ratio_original / max_relative_ratio,
\*  resample_ratio_original * max_relative_ratio].
C13_RatiosWithinBounds ==
    RatioWithinBounds(resample_ratio) /\ RatioWithinBounds(target_ratio)

\* A relative ratio was rejected during a ramp to the upper bound.
C13_Witness ==
    /\ call.op = "set_resample_ratio_relative" /\ ret.kind = "RatioOutOfBounds"
    /\ resample_ratio = resample_ratio_original
    /\ target_ratio = RMul(resample_ratio_original, max_relative_ratio)

\* ------------------------------------------------------------------------
\* Chunk size, reset
\* ------------------------------------------------------------------------
\* C14: set_chunk_size(n) with n = 0 or n > max_chunk_size returns
\* InvalidChunkSize with max = max_chunk_size and requested = n and leaves every
\* field as it was; every n in 1..max_chunk_size is accepted and becomes
\* chunk_size.
C14_InvalidChunkSizeRejected ==
    [][call'.op = "set_chunk_size"
        => IF call'.chunksize = 0 \/ call'.chunksize > max_chunk_size
           THEN /\ ret' = [kind |-> "InvalidChunkSize", max |-> max_chunk_size,
                           requested |-> call'.chunksize]
                /\ fields' = fields
           ELSE ret'.kind = "Ok" /\ chunk_size' = call'.chunksize]_vars

\* A chunk size of zero was rejected after a smaller chunk size was set.
C14_Witness ==
    /\ call.op = "set_chunk_size" /\ call.chunksize = 0
    /\ ret.kind = "InvalidChunkSize" /\ chunk_size < max_chunk_size

\* The resampler the constructor makes from the parameters of this one.
Fresh ==
    new_with_interpolator(resample_ratio_original, max_relative_ratio, interpolation,
                          max_chunk_size, nbr_channels, fixed).self

\* Some frame of the caller's output buffer has been written.
HasWritten ==
    \E ch \in DOMAIN wave_out : \E n \in DOMAIN wave_out[ch] :
        wave_out[ch][n] # Untouched

\* C15: right after construction and right after every reset the ring buffers
\* are all zero, last_index is -sinc_len / 2, both ratios are the original
\* ratio, chunk_size is max_chunk_size, the mask is all true, and
\* input_frames_next() and output_frames_next() are what they were right after
\* construction.
C15_ResetRestoresInitialState ==
    call.op \in {"new", "reset"}
        => /\ \A ch \in 1..nbr_channels : \A i \in DOMAIN buffer[ch] : buffer[ch][i] = 0
           /\ RMul(last_index, RInt(2)) = RInt(-interpolator_len_)
           /\ resample_ratio = resample_ratio_original
           /\ target_ratio = resample_ratio_original
           /\ chunk_size = max_chunk_size
           /\ channel_mask = AllTrue(nbr_channels)
           /\ input_frames_next(Self) = input_frames_next(Fresh)
           /\ output_frames_next(Self) = output_frames_next(Fresh)

\* A reset was made after another call, before any frame was written.
C15_Witness ==
    /\ call.op = "reset" /\ nops > 1 /\ ~HasWritten

\* C16: a resampler that was reset answers every next call as a newly
\* constructed one does: process_into_buffer (on buffers of the sizes each
\* announces, with every mask), set_resample_ratio and set_chunk_size return the
\* same value, write the same frames and leave the same resampler.
C16_ResetEquivalentToNew ==
    call.op = "reset"
        => \E self \in {Self}, fresh \in {Fresh} :
            /\ \A m \in Masks(nbr_channels) :
                \E a \in {MakeArgs(self, <<"exact", "exact">>, nops, m)},
                   b \in {MakeArgs(fresh, <<"exact", "exact">>, nops, m)} :
                    process_into_buffer(self, a.wave_in, a.wave_out, a.mask)
                        = process_into_buffer(fresh, b.wave_in, b.wave_out, b.mask)
            /\ \A new_ratio \in RatioInputs(fresh), ramp \in BOOLEAN :
                set_resample_ratio(self, new_ratio, ramp)
                    = set_resample_ratio(fresh, new_ratio, ramp)
            /\ \A chunksize \in ChunkSizeInputs(fresh) :
                set_chunk_size(self, chunksize) = set_chunk_size(fresh, chunksize)

\* A reset was made after a chunk was resampled.
C16_Witness ==
    /\ call.op = "reset" /\ HasWritten
    /\ \A ch \in 1..nbr_channels : \A i \in DOMAIN buffer[ch] : buffer[ch][i] = 0

\* ------------------------------------------------------------------------
\* Ring buffer
\* ------------------------------------------------------------------------
\* C17: the ring buffer of a channel is a window of its input stream.  From one
\* successful chunk to the next, for a channel active in both: the first
\* 2 * sinc_len entries are the last 2 * sinc_len entries of the window of the
\* previous chunk, which consumed ret.in_frames frames, and the entries after
\* them are the frames of the new chunk.
C17_BufferIsStreamWindow ==
    [][(/\ IsProcess(call) /\ ret.kind = "Ok"
        /\ IsProcess(call') /\ ret'.kind = "Ok")
        => \A ch \in 1..nbr_channels :
            (EffectiveMask(call, nbr_channels)[ch]
             /\ EffectiveMask(call', nbr_channels)[ch])
                => /\ \A i \in 1..(2 * interpolator_len_) :
                        buffer'[ch][i] = buffer[ch][ret.in_frames + i]
                   /\ \A j \in 1..ret'.in_frames :
                        buffer'[ch][2 * interpolator_len_ + j] = call'.wave_in[ch][j]]_vars

\* ------------------------------------------------------------------------
\* Partial chunks
\* ------------------------------------------------------------------------
IsProcessPartial(c) == c.op = "process_partial_into_buffer"
\* A channel extended with zeros to the given number of frames.
ZeroPaddedChannel(ch_input, frames) ==
    [j \in 1..(IF Len(ch_input) > frames THEN Len(ch_input) ELSE frames) |->
        IF j <= Len(ch_input) THEN ch_input[j] ELSE 0]
\* The input of a partial call with every channel extended with zeros to the
\* given number of frames; all zeros when no input was given.
ZeroPadded(wave_in, channels, frames) ==
    IF IsSome(wave_in)
    THEN [ch \in 1..Len(Unwrap(wave_in)) |-> ZeroPaddedChannel(Unwrap(wave_in)[ch], frames)]
    ELSE [ch \in 1..channels |-> [j \in 1..frames |-> 0]]

\* C18: process_partial_into_buffer has the result, the output and the
\* post-state of process_into_buffer on the same input with every channel
\* zero-padded to input_frames_next() frames.
C18_PartialEqualsZeroPadded ==
    [][IsProcessPartial(call')
        => \E r \in {process_into_buffer(Self,
                          ZeroPadded(call'.wave_in, nbr_channels, needed_input_size),
                          call'.wave_out, call'.mask)} :
            /\ ret' = r.ret
            /\ wave_out' = r.wave_out
            /\ Self' = r.self]_vars

\* ------------------------------------------------------------------------
\* Frame counts
\* ------------------------------------------------------------------------
\* The number of frames of an output channel that a call wrote.
FramesWritten(before, after) ==
    Cardinality({n \in 1..Len(after) : after[n] # before[n]})

\* C19: a successful process_into_buffer call returns the pair
\* (input_frames_next(), output_frames_next()) read before the call, and writes
\* at most that many output frames to each active channel.
C19_ReturnsAnnouncedSizes ==
    [][(IsProcess(call') /\ ret'.kind = "Ok")
        => /\ ret'.in_frames = input_frames_next(Self)
           /\ ret'.out_frames = output_frames_next(Self)
           /\ \A ch \in 1..nbr_channels :
                EffectiveMask(call', nbr_channels)[ch]
                    => /\ Len(wave_out'[ch]) = Len(call'.wave_out[ch])
                       /\ FramesWritten(call'.wave_out[ch], wave_out'[ch])
                            <= output_frames_next(Self)]_vars
\* A second successful chunk whose sizes differ from those announced after it,
\* written to an output buffer one frame longer than needed.
C19_Witness ==
    /\ IsProcess(call) /\ ret.kind = "Ok" /\ nops > 1
    /\ ret.in_frames # needed_input_size
    /\ ret.out_frames > 0
    /\ \E ch \in 1..nbr_channels :
        /\ EffectiveMask(call, nbr_channels)[ch]
        /\ Len(wave_out[ch]) > ret.out_frames
        /\ FramesWritten(call.wave_out[ch], wave_out[ch]) = ret.out_frames

\* ------------------------------------------------------------------------
\* Output rate
\* ------------------------------------------------------------------------
\* check_ratio!: measured_ratio = total_out as f64 / total_in as f64 is above
\* 0.999 * ratio and below 1.001 * ratio.
RatioWithinTolerance(in, out, ratio) ==
    LET measured_ratio == RDiv(RInt(out), RInt(in))
    IN  /\ RLt(RMul(RDiv(RInt(999), RInt(1000)), ratio), measured_ratio)
        /\ RLt(measured_ratio, RMul(RDiv(RInt(1001), RInt(1000)), ratio))

\* C20: in a run of process_into_buffer calls at a constant ratio, without
\* mutator calls, every call succeeds, and once the run has consumed LongRun
\* frames the accumulated counts satisfy
\* 0.999 * r < total_out / total_in < 1.001 * r.
C20_RateWithinTolerance ==
    /\ ret.kind = "Ok"
    /\ total_in >= LongRun
        => RatioWithinTolerance(total_in, total_out, resample_ratio_original)
\* A long run in Fixed::Input mode with chunks of one frame, at a ratio other
\* than one.
C20_Witness ==
    /\ IsProcess(call) /\ ret.kind = "Ok"
    /\ total_in >= LongRun /\ total_out > 0
    /\ fixed = "Input" /\ chunk_size = 1
    /\ resample_ratio_original # RInt(1)
    /\ resample_ratio = resample_ratio_original
    /\ target_ratio = resample_ratio_original
\* A long run in Fixed::Output mode with chunks of one frame.
C20_WitnessOutput ==
    /\ IsProcess(call) /\ ret.kind = "Ok"
    /\ total_in >= LongRun
    /\ fixed = "Output" /\ chunk_size = 1

\* ------------------------------------------------------------------------
\* Recovery from errors
\* ------------------------------------------------------------------------
\* The call an error is answered with: the same mask, buffers of the sizes
\* the resampler asked for before the failed call.
Corrected(self, c, k) == MakeArgs(self, <<"exact", "exact">>, k, c.mask)

\* C21: a process_into_buffer call that fails validation writes no output and
\* advances neither the cursor, the ratios, the needed sizes nor the ring
\* buffers; the corrected call made after it has the result, the output and
\* the post-state of the corrected call made in its place.
C21_FailedCallIsRecoverable ==
    [][(IsProcess(call') /\ IsError(ret'))
        => /\ wave_out' = call'.wave_out
           /\ UNCHANGED <<last_index, resample_ratio, target_ratio, chunk_size,
                          needed_input_size, needed_output_size, buffer>>
           /\ \/ Self' = Self
              \/ \E a \in {Corrected(Self, call', nops)} :
                    process_into_buffer(Self', a.wave_in, a.wave_out, a.mask)
                        = process_into_buffer(Self, a.wave_in, a.wave_out, a.mask)]_vars
\* A call failed validation after a chunk was ingested, while a mask other
\* than the one stored was given.
C21_Witness ==
    /\ IsProcess(call) /\ IsError(ret) /\ nops > 1
    /\ \E ch \in 1..nbr_channels : \E i \in 1..Len(buffer[ch]) : buffer[ch][i] # 0
    /\ \E ch \in 1..nbr_channels : ~channel_mask[ch]

\* ------------------------------------------------------------------------
\* Construction
\* ------------------------------------------------------------------------
IsNew(c) == c.op = "new"

\* C22: construction returns InvalidRatio when resample_ratio <= 0, otherwise
\* InvalidRelativeRatio when max_resample_ratio_relative < 1, and otherwise
\* succeeds, with both ratios equal to the ratio given and the maximum relative
\* ratio as given.
C22_ConstructionValidatesRatios ==
    IsNew(call)
        => IF RLe(call.resample_ratio, RInt(0))
           THEN ret.kind = "InvalidRatio"
           ELSE IF RLt(call.max_resample_ratio_relative, RInt(1))
           THEN ret.kind = "InvalidRelativeRatio"
           ELSE /\ ret.kind = "Ok"
                /\ resample_ratio = call.resample_ratio
                /\ target_ratio = call.resample_ratio
                /\ resample_ratio_original = call.resample_ratio
                /\ max_relative_ratio = call.max_resample_ratio_relative
                /\ chunk_size = call.chunk_size
\* A resampler was constructed with a maximum relative ratio of exactly one.
C22_Witness ==
    /\ IsNew(call) /\ ret.kind = "Ok"
    /\ call.max_resample_ratio_relative = RInt(1)
    /\ call.resample_ratio # RInt(1)
\* Construction was refused for the ratio although the relative ratio was
\* invalid as well.
C22_WitnessPrecedence ==
    /\ IsNew(call) /\ ret.kind = "InvalidRatio"
    /\ RLt(call.max_resample_ratio_relative, RInt(1))

\* ------------------------------------------------------------------------
\* Relative ratios
\* ------------------------------------------------------------------------
IsSetResampleRatioRelative(c) == c.op = "set_resample_ratio_relative"

\* C23: every call set_resample_ratio_relative(rel, ramp) returns what
\* set_resample_ratio(rel * resample_ratio_original, ramp) returns in the state
\* of the call, and leaves the resampler as that call leaves it.
C23_RelativeIsScaledOriginal ==
    [][IsSetResampleRatioRelative(call')
        => \E r \in {set_resample_ratio(Self, RMul(call'.rel_ratio,
                                                  resample_ratio_original),
                                       call'.ramp)} :
            /\ ret' = r.ret
            /\ Self' = r.self]_vars
\* A relative ratio was accepted with a ramp while the current ratio was not
\* the original one.
C23_Witness ==
    /\ IsSetResampleRatioRelative(call) /\ ret.kind = "Ok" /\ call.ramp
    /\ resample_ratio # resample_ratio_original
    /\ target_ratio = RMul(call.rel_ratio, resample_ratio_original)
    /\ target_ratio # RMul(call.rel_ratio, resample_ratio)

\* ------------------------------------------------------------------------
\* The allocating wrapper
\* ------------------------------------------------------------------------
IsProcessAllocating(c) == c.op = "process"

\* C24: a successful process call returns nbr_channels vectors; an active
\* channel has as many frames as the process_into_buffer call it made
\* reported, an inactive channel has none.
C24_ProcessReturnsOutFrames ==
    [][(IsProcessAllocating(call') /\ ret'.kind = "Ok")
        => \E r \in {process_into_buffer(Self, call'.wave_in,
                          AllocatedOutput(nbr_channels, output_frames_next(Self),
                                          call'.mask),
                          call'.mask)} :
            /\ r.ret.kind = "Ok"
            /\ Len(wave_out') = nbr_channels
            /\ \A chan \in 1..nbr_channels :
                IF EffectiveMask(call', nbr_channels)[chan]
                THEN Len(wave_out'[chan]) = r.ret.out_frames
                ELSE wave_out'[chan] = <<>>]_vars
\* A process call with an inactive channel returned frames for the active one.
C24_Witness ==
    /\ IsProcessAllocating(call) /\ ret.kind = "Ok"
    /\ \E chan \in 1..nbr_channels : ~EffectiveMask(call, nbr_channels)[chan]
    /\ \E chan \in 1..nbr_channels :
        /\ EffectiveMask(call, nbr_channels)[chan]
        /\ Len(wave_out[chan]) > 0

\* ------------------------------------------------------------------------
\* The cursor
\* ------------------------------------------------------------------------
\* C25: in every chunk, after every step, the cursor idx lies within
\* [-sinc_len / 2, needed_input_size + sinc_len / 2].
C25_CursorWithinSpan ==
    [][IsProcess(call')
        => \A n \in 1..Len(Schedule(Self)) :
            /\ RLe(RDiv(RNeg(RInt(interpolator_len_)), RInt(2)), Schedule(Self)[n].idx)
            /\ RLe(Schedule(Self)[n].idx,
                   RAdd(RInt(needed_input_size),
                        RDiv(RInt(interpolator_len_), RInt(2))))]_vars

\* C26: every kernel call of a chunk has a base index, sample offset plus
\* 2 * sinc_len, that is not negative and satisfies
\* base + sinc_len <= buffer_len.
C26_KernelCallsInBounds ==
    [][(/\ IsProcess(call') /\ ~IsError(ret')
        /\ needed_input_size + 2 * interpolator_len_ <= buffer_len(Self))
        => \A nearest \in {NearestOf(Self, Schedule(Self))} :
            \A n \in 1..Len(nearest) : \A j \in 1..Len(nearest[n]) :
                /\ nearest[n][j][1] + 2 * interpolator_len_ >= 0
                /\ nearest[n][j][1] + 2 * interpolator_len_ + interpolator_len_
                        <= buffer_len(Self)]_vars

\* ------------------------------------------------------------------------
\* Ramps
\* ------------------------------------------------------------------------
\* C27: a successful process_into_buffer call ends the ramp: it leaves
\* target_ratio as it was and makes resample_ratio equal to it, and every
\* step of the chunk that follows is 1 / target_ratio.
C27_RampLastsOneChunk ==
    [][(IsProcess(call') /\ ret'.kind = "Ok")
        => /\ target_ratio' = target_ratio
           /\ resample_ratio' = target_ratio
           /\ \A sched \in {Schedule(Self')} : \A n \in 1..Len(sched) :
                sched[n].t_ratio = RDiv(RInt(1), target_ratio)]_vars
\* A chunk was processed with a ratio that is not the original, and the next
\* chunk has frames to produce.
C27_Witness ==
    /\ IsProcess(call) /\ ret.kind = "Ok" /\ ret.out_frames > 1
    /\ resample_ratio = target_ratio
    /\ resample_ratio # resample_ratio_original
    /\ needed_output_size > 1
    \* the cursor is where only a ramped chunk leaves it
    /\ HasFrac(RMul(last_index, RInt(4)))

\* |a - b| <= tol
RAbs(a) == [a EXCEPT !.sign = IF @ = 0 THEN 0 ELSE 1]
WithinTolerance(a, b, tol) == RLe(RAbs(RSub(a, b)), tol)
\* 2^-40: far above the rounding error of a chunk's additions, far below a step.
RampTolerance == [sign |-> 1, exp |-> -92, mant |-> <<65536, 0, 0>>]

\* C28 as stated: in a chunk that produces N > 0 frames the step of output n
\* (from 0) is 1 / resample_ratio + (n + 1) * D with
\* D = (1 / target_ratio - 1 / resample_ratio) / N, the last step is
\* 1 / target_ratio, and over the chunk the cursor advances by
\* N / resample_ratio + D * N * (N + 1) / 2.
C28_Original ==
    [][(IsProcess(call') /\ ret'.kind = "Ok" /\ needed_output_size > 0)
        => \E sched \in {Schedule(Self)}, N \in {needed_output_size},
              t0 \in {RDiv(RInt(1), resample_ratio)} :
            \E D \in {RDiv(RSub(RDiv(RInt(1), target_ratio), t0), RInt(N))} :
                /\ Len(sched) = N
                /\ \A n \in 0..(N - 1) :
                    /\ sched[n + 1].t_ratio = RAdd(t0, RMul(RInt(n + 1), D))
                    /\ sched[n + 1].idx
                        = RAdd(IF n = 0 THEN last_index ELSE sched[n].idx,
                               sched[n + 1].t_ratio)
                /\ sched[N].t_ratio = RDiv(RInt(1), target_ratio)
                /\ RSub(RAdd(last_index', RInt(ret'.in_frames)), last_index)
                    = RAdd(RMul(RInt(N), t0),
                           RDiv(RMul(D, RInt(N * (N + 1))), RInt(2)))]_vars

\* C28: in a chunk that produces N > 0 frames, D being
\* (1 / target_ratio - 1 / resample_ratio) / N, the step of an output is the
\* step of the one before (1 / resample_ratio for the first) plus D and the
\* cursor of an output is the cursor of the one before plus its step, each sum
\* rounded; so the step of output n (from 0) is 1 / resample_ratio + (n + 1) * D,
\* the last step is 1 / target_ratio and the cursor advances over the chunk by
\* N / resample_ratio + D * N * (N + 1) / 2 up to the rounding of these sums.
C28_StepsAccumulateRamp ==
    [][(IsProcess(call') /\ ret'.kind = "Ok" /\ needed_output_size > 0)
        => \E sched \in {Schedule(Self)}, N \in {needed_output_size},
              t0 \in {RDiv(RInt(1), resample_ratio)} :
            \E D \in {RDiv(RSub(RDiv(RInt(1), target_ratio), t0), RInt(N))} :
                /\ Len(sched) = N
                /\ \A n \in 0..(N - 1) :
                    /\ sched[n + 1].t_ratio
                        = RAdd(IF n = 0 THEN t0 ELSE sched[n].t_ratio, D)
                    /\ sched[n + 1].idx
                        = RAdd(IF n = 0 THEN last_index ELSE sched[n].idx,
                               sched[n + 1].t_ratio)
                    /\ WithinTolerance(sched[n + 1].t_ratio,
                                       RAdd(t0, RMul(RInt(n + 1), D)), RampTolerance)
                /\ WithinTolerance(sched[N].t_ratio, RDiv(RInt(1), target_ratio),
                                   RampTolerance)
                /\ WithinTolerance(
                       RSub(RAdd(last_index', RInt(ret'.in_frames)), last_index),
                       RAdd(RMul(RInt(N), t0),
                            RDiv(RMul(D, RInt(N * (N + 1))), RInt(2))),
                       RampTolerance)]_vars
\* A ramped chunk of several frames was processed, and its last step was not
\* the inverse of the target ratio.
C28_Witness ==
    /\ IsProcess(call) /\ ret.kind = "Ok" /\ ret.out_frames > 1
    /\ resample_ratio # resample_ratio_original
    \* the cursor is where only a ramped chunk with rounded steps leaves it
    /\ HasFrac(RMul(last_index, RInt(1024)))

\* The sum of the steps of a schedule.
RECURSIVE SumOfSteps(_, _)
SumOfSteps(sched, n) ==
    IF n = 0 THEN RInt(0) ELSE RAdd(sched[n].t_ratio, SumOfSteps(sched, n - 1))

\* C29 as stated: after a successful process_into_buffer call, with or without
\* a mask, last_index is the final cursor of the chunk minus the in_frames the
\* call reported, so that in_frames + last_index grows by exactly the sum of
\* the steps of the chunk; set_resample_ratio, set_chunk_size and failed
\* process_into_buffer calls, whatever mask they are given, leave last_index
\* unchanged.
C29_Original ==
    [][/\ (IsProcess(call') /\ ret'.kind = "Ok")
            => \E sched \in {Schedule(Self)} :
                /\ last_index'
                    = RSub(IF Len(sched) = 0 THEN last_index ELSE sched[Len(sched)].idx,
                           RInt(ret'.in_frames))
                /\ RAdd(last_index', RInt(ret'.in_frames))
                    = RAdd(last_index, SumOfSteps(sched, Len(sched)))
       /\ (\/ IsProcess(call') /\ IsError(ret')
           \/ IsSetResampleRatio(call')
           \/ call'.op = "set_chunk_size")
            => last_index' = last_index]_vars

\* C29: after a successful process_into_buffer call, with or without a mask,
\* last_index is the final cursor of the chunk minus the in_frames the call
\* reported, rounded, so that in_frames + last_index grows by the sum of the
\* steps of the chunk up to the rounding of the sums; set_resample_ratio,
\* set_chunk_size and failed process_into_buffer calls, whatever mask they are
\* given, leave last_index unchanged.
C29_CursorIsReanchored ==
    [][/\ (IsProcess(call') /\ ret'.kind = "Ok")
            => \E sched \in {Schedule(Self)} :
                /\ last_index'
                    = RSub(IF Len(sched) = 0 THEN last_index ELSE sched[Len(sched)].idx,
                           RInt(ret'.in_frames))
                /\ WithinTolerance(RAdd(last_index', RInt(ret'.in_frames)),
                                   RAdd(last_index, SumOfSteps(sched, Len(sched))),
                                   RampTolerance)
       /\ (\/ IsProcess(call') /\ IsError(ret')
           \/ IsSetResampleRatio(call')
           \/ call'.op = "set_chunk_size")
            => last_index' = last_index]_vars
\* A chunk that produced frames was processed with a channel masked after a
\* change of the ratio, and left the cursor where only rounded steps take it.
C29_Witness ==
    /\ IsProcess(call) /\ ret.kind = "Ok" /\ ret.out_frames > 0 /\ nops > 2
    /\ IsSome(call.mask) /\ channel_mask # AllTrue(nbr_channels)
    /\ resample_ratio # resample_ratio_original
    /\ HasFrac(RMul(last_index, RInt(4096)))

\* ------------------------------------------------------------------------
\* Chunk size
\* ------------------------------------------------------------------------
IsSetChunkSize(c) == c.op = "set_chunk_size"

\* C30: a successful set_chunk_size(n), also while a ramp is pending, leaves
\* the ring buffers, last_index, resample_ratio, target_ratio, the channel
\* mask, max_chunk_size and the other fields set at construction unchanged,
\* and chunk_size is n; only chunk_size and the needed sizes may differ.
C30_SetChunkSizeFrame ==
    [][(IsSetChunkSize(call') /\ ret'.kind = "Ok")
        => /\ UNCHANGED <<buffer, last_index, resample_ratio, target_ratio,
                          channel_mask, params>>
           /\ chunk_size' = call'.chunksize]_vars
\* The chunk size was lowered while a ramp was pending and the ring buffers
\* held samples.
C30_Witness ==
    /\ IsSetChunkSize(call) /\ ret.kind = "Ok"
    /\ chunk_size < max_chunk_size
    /\ resample_ratio # target_ratio
    /\ \E ch \in 1..nbr_channels : \E i \in 1..Len(buffer[ch]) : buffer[ch][i] # 0

\* ------------------------------------------------------------------------
\* Derived sizes
\* ------------------------------------------------------------------------
\* C31: in every reachable state needed_input_size and needed_output_size
\* are calculate_input_size and calculate_output_size of the current
\* chunk_size, resample_ratio, target_ratio and last_index.
C31_NeededSizesAreDerived ==
    Alive =>
        /\ needed_input_size
            = calculate_input_size(chunk_size, resample_ratio, target_ratio,
                                   last_index, interpolator_len_, fixed)
        /\ needed_output_size
            = calculate_output_size(chunk_size, resample_ratio, target_ratio,
                                    last_index, interpolator_len_, fixed)

\* C32: for a resampler constructed with chunk_size > 0, chunk_size is in
\* 1..max_chunk_size in every reachable state, and max_chunk_size, which
\* construction sets to its chunk_size argument, never changes.
C32_ChunkSizeWithinMax ==
    /\ (0 < chunk_size /\ chunk_size = max_chunk_size)
    /\ [][/\ 0 < chunk_size' /\ chunk_size' <= max_chunk_size'
          /\ max_chunk_size' = max_chunk_size]_vars
\* A request above max_chunk_size was refused after the chunk size had been
\* lowered.
C32_Witness ==
    /\ IsSetChunkSize(call) /\ ret.kind = "InvalidChunkSize"
    /\ call.chunksize > max_chunk_size
    /\ 0 < chunk_size /\ chunk_size < max_chunk_size

\* ------------------------------------------------------------------------
\* Ring buffers and the channel mask
\* ------------------------------------------------------------------------
\* C33: a successful process_into_buffer call copies the samples at
\* [needed_input_size, needed_input_size + 2L) of every ring buffer to [0, 2L);
\* it changes nothing else of the buffer of an inactive channel, and in the
\* buffer of an active channel it stores wave_in[ch][0 .. needed_input_size]
\* at [2L, 2L + needed_input_size) and changes nothing beyond.
C33_ShiftAlwaysIngestWhenActive ==
    [][(IsProcess(call') /\ ret'.kind = "Ok")
        => LET mask == EffectiveMask(call', nbr_channels)
               needed == needed_input_size
               hist == 2 * interpolator_len_
           IN  \A ch \in 1..nbr_channels :
                /\ Len(buffer'[ch]) = Len(buffer[ch])
                /\ \A i \in 1..Len(buffer[ch]) :
                    buffer'[ch][i] =
                        IF i <= hist THEN buffer[ch][needed + i]
                        ELSE IF mask[ch] /\ i <= hist + needed
                             THEN call'.wave_in[ch][i - hist]
                             ELSE buffer[ch][i]]_vars
\* A successful call with an active and an inactive channel: the inactive
\* channel came with input, its ring buffer holds nonzero history, and what
\* lies behind the history is not that input.
C33_Witness ==
    /\ IsProcess(call) /\ ret.kind = "Ok"
    /\ \E a, b \in 1..nbr_channels :
        /\ EffectiveMask(call, nbr_channels)[a]
        /\ ~EffectiveMask(call, nbr_channels)[b]
        /\ \E i \in 1..(2 * interpolator_len_) : buffer[b][i] # 0
        /\ \E j \in 1..Len(call.wave_in[b]) :
            buffer[b][2 * interpolator_len_ + j] # call.wave_in[b][j]
        /\ \E i \in (2 * interpolator_len_ + 1)..Len(buffer[a]) : buffer[a][i] # 0

\* C34: the mask of an earlier call has no effect on a process_into_buffer
\* call.  Whatever mask the resampler holds from before, the call has the same
\* result, output and new state; a call without a mask is the call with the
\* mask that is true for every channel; and after a call that returns, the
\* mask held is the one given, or all true when none was given.
C34_MaskDoesNotPersist ==
    [][IsProcess(call')
        => /\ \A held \in [1..nbr_channels -> BOOLEAN] :
                \E r \in {process_into_buffer([Self EXCEPT !.channel_mask = held],
                              call'.wave_in, call'.wave_out,
                              IF IsSome(call'.mask) THEN call'.mask
                              ELSE <<AllTrue(nbr_channels)>>)} :
                    /\ Self' = r.self
                    /\ ret' = r.ret
                    /\ wave_out' = r.wave_out
           /\ ret'.kind # "Panic"
                => channel_mask' = EffectiveMask(call', nbr_channels)]_vars
\* A successful call without a mask after a successful call in which one
\* channel was inactive: with three frames or more a call, an ingested chunk
\* has a nonzero sample, so a channel whose history is all zero was inactive
\* before, and it has taken input now.
C34_Witness ==
    /\ IsProcess(call) /\ ~IsSome(call.mask) /\ ret.kind = "Ok"
    /\ fixed = "Input" /\ needed_input_size >= 3 /\ nops = 2
    /\ channel_mask = AllTrue(nbr_channels)
    /\ \E a, b \in 1..nbr_channels :
        /\ \E i \in 1..(2 * interpolator_len_) : buffer[a][i] # 0
        /\ \A i \in 1..(2 * interpolator_len_) : buffer[b][i] = 0
        /\ \E i \in (2 * interpolator_len_ + 1)..Len(buffer[b]) : buffer[b][i] # 0

\* ------------------------------------------------------------------------
\* Partial chunks that are too long
\* ------------------------------------------------------------------------
\* Every channel of the input cut to the given number of frames at most.
Truncated(wave_in, frames) ==
    [ch \in 1..Len(wave_in) |->
        SubSeq(wave_in[ch], 1,
               IF Len(wave_in[ch]) > frames THEN frames ELSE Len(wave_in[ch]))]

\* C35 as stated: a process_partial_into_buffer call whose input has a channel
\* with more frames than input_frames_next() has the result, the output and
\* the new state of process_into_buffer on the input cut to
\* input_frames_next() frames.
C35_Original ==
    [][(/\ IsProcessPartial(call') /\ IsSome(call'.wave_in)
        /\ \E ch \in 1..Len(Unwrap(call'.wave_in)) :
                Len(Unwrap(call'.wave_in)[ch]) > input_frames_next(Self))
        => \E r \in {process_into_buffer(Self,
                          Truncated(Unwrap(call'.wave_in), input_frames_next(Self)),
                          call'.wave_out, call'.mask)} :
                /\ ret' = r.ret
                /\ wave_out' = r.wave_out
                /\ Self' = r.self]_vars

\* C35: a process_partial_into_buffer call whose input has a channel with more
\* frames than input_frames_next() has the result, the output and the new
\* state of the same call on the input cut to input_frames_next() frames; when
\* the input has one channel per resampler channel and none is shorter than
\* input_frames_next(), these are the result, the output and the new state of
\* process_into_buffer on the cut input.
C35_LongInputIsTruncated ==
    [][(/\ IsProcessPartial(call') /\ IsSome(call'.wave_in)
        /\ \E ch \in 1..Len(Unwrap(call'.wave_in)) :
                Len(Unwrap(call'.wave_in)[ch]) > input_frames_next(Self))
        => LET input == Unwrap(call'.wave_in)
               frames == input_frames_next(Self)
               cut == Truncated(input, frames)
           IN  /\ \E r \in {process_partial_into_buffer(Self, <<cut>>, call'.wave_out,
                                                         call'.mask)} :
                    /\ ret' = r.ret
                    /\ wave_out' = r.wave_out
                    /\ Self' = r.self
               /\ (/\ Len(input) = nbr_channels
                   /\ \A ch \in 1..Len(input) : Len(input[ch]) >= frames)
                    => \E r \in {process_into_buffer(Self, cut, call'.wave_out,
                                                     call'.mask)} :
                        /\ ret' = r.ret
                        /\ wave_out' = r.wave_out
                        /\ Self' = r.self]_vars
\* A successful partial call whose first channel, active, came with one frame
\* more than was consumed, the extra frame unlike the last one consumed: the
\* ring buffer ends with the consumed frames.
C35_Witness ==
    /\ IsProcessPartial(call) /\ IsSome(call.wave_in) /\ ret.kind = "Ok"
    /\ ret.in_frames > 0
    /\ EffectiveMask(call, nbr_channels)[1]
    /\ LET first == Unwrap(call.wave_in)[1]
       IN  /\ Len(first) = ret.in_frames + 1
           /\ first[ret.in_frames + 1] # first[ret.in_frames]
           /\ buffer[1][2 * interpolator_len_ + ret.in_frames] = first[ret.in_frames]

\* ------------------------------------------------------------------------
\* Maximum sizes
\* ------------------------------------------------------------------------
\* C36: input_frames_max() and output_frames_max() are, right after
\* construction, calculate_max_input_size and calculate_max_output_size of the
\* chunk size and ratio given, the maximum relative ratio, the sinc length and
\* the Fixed mode, and no call of process_into_buffer, set_resample_ratio,
\* set_chunk_size or reset changes them.
C36_MaxSizesAreConstant ==
    /\ input_frames_max(Self)
        = calculate_max_input_size(chunk_size, resample_ratio, max_relative_ratio,
                                   interpolator_len_, fixed)
    /\ output_frames_max(Self)
        = calculate_max_output_size(chunk_size, resample_ratio, max_relative_ratio,
                                    fixed)
    /\ [][/\ input_frames_max(Self') = input_frames_max(Self)
          /\ output_frames_max(Self') = output_frames_max(Self)]_vars
\* The maximum sizes are asked for while the chunk size is lowered, a ramp is
\* pending and the cursor has moved.
C36_Witness ==
    /\ Alive
    /\ chunk_size < max_chunk_size
    /\ resample_ratio # target_ratio
    /\ target_ratio # resample_ratio_original
    /\ last_index # Fresh.last_index
    /\ input_frames_max(Self) = input_frames_max(Fresh)
    /\ output_frames_max(Self) = output_frames_max(Fresh)

\* ------------------------------------------------------------------------
\* Chunks without output
\* ------------------------------------------------------------------------
\* The number of output frames of a Fixed::Input chunk before it is cut to a
\* whole number: (chunk_size - (sinc_len + 1) - last_index) times the mean of
\* resample_ratio and target_ratio.
OutputSpan ==
    RMul(RSub(RInt(chunk_size - (interpolator_len_ + 1)), last_index),
         RDiv(RAdd(resample_ratio, target_ratio), RInt(2)))

\* C37: in Fixed::Input mode, when (chunk_size - (sinc_len + 1) - last_index)
\* * (resample_ratio + target_ratio) / 2 is below 1, a process_into_buffer
\* call on buffers of the sizes announced succeeds with out_frames = 0, leaves
\* wave_out as it was, stores the first chunk_size frames of every active
\* input channel behind the history of its ring buffer, and lowers last_index
\* by exactly chunk_size.
C37_NoOutputChunkStillConsumes ==
    [][(/\ IsProcess(call') /\ fixed = "Input" /\ Alive
        /\ RLt(OutputSpan, RInt(1)))
        => /\ ret'.kind = "Ok"
           /\ ret'.out_frames = 0
           /\ ret'.in_frames = chunk_size
           /\ wave_out' = call'.wave_out
           /\ last_index' = RSub(last_index, RInt(chunk_size))
           /\ \A ch \in 1..nbr_channels : \A j \in 1..chunk_size :
                EffectiveMask(call', nbr_channels)[ch]
                    => buffer'[ch][2 * interpolator_len_ + j] = call'.wave_in[ch][j]]_vars

\* C38: in Fixed::Input mode, once the caller only repeats process_into_buffer
\* calls (the ratio is constant from the second of them on) and as long as
\* they return, a call that returns out_frames > 0 comes again and again:
\* from no reachable state do the calls return out_frames = 0 forever.
C38_OutputComesEventually ==
    []<>((fixed = "Input" /\ Alive)
            => IsProcess(call) /\ ret.kind = "Ok" /\ ret.out_frames > 0)
\* A call returned frames on a resampler whose chunk is one frame: its first
\* calls returned none, the cursor having to move back by the sinc length
\* first.
C38_Witness ==
    /\ IsProcess(call) /\ ret.kind = "Ok" /\ ret.out_frames > 0
    /\ fixed = "Input" /\ max_chunk_size = 1
    /\ resample_ratio = target_ratio

\* ------------------------------------------------------------------------
\* Output delay
\* ------------------------------------------------------------------------
\* floor(sinc_len * r / 2) for a positive ratio r.
DelayAt(r) == RFloor(RDiv(RMul(RInt(interpolator_len_), r), RInt(2)))

\* C39: output_delay() is floor(sinc_len * resample_ratio / 2) of the current
\* resample_ratio.  After a successful set_resample_ratio(x, false) it is the
\* delay at x; a successful set_resample_ratio(x, true) leaves it unchanged,
\* and the next successful process_into_buffer call makes it the delay at x,
\* the target ratio; after reset it is the delay at the original ratio.
C39_OutputDelayFollowsRatio ==
    /\ output_delay(Self) = DelayAt(resample_ratio_original)
    /\ [][/\ Alive' => output_delay(Self') = DelayAt(resample_ratio')
          /\ (IsSetResampleRatio(call') /\ ret'.kind = "Ok" /\ ~call'.ramp)
                => output_delay(Self') = DelayAt(call'.new_ratio)
          /\ (IsSetResampleRatio(call') /\ ret'.kind = "Ok" /\ call'.ramp)
                => /\ output_delay(Self') = output_delay(Self)
                   /\ target_ratio' = call'.new_ratio
          /\ (IsProcess(call') /\ ret'.kind = "Ok")
                => output_delay(Self') = DelayAt(target_ratio)
          /\ call'.op = "reset"
                => output_delay(Self') = DelayAt(resample_ratio_original)]_vars
\* A ramp to another ratio was requested after the ratio had been changed: the
\* delay is still that of the ratio in effect, which is neither the delay at
\* the target nor the one right after construction.
C39_Witness ==
    /\ IsSetResampleRatio(call) /\ ret.kind = "Ok" /\ call.ramp
    /\ output_delay(Self) = DelayAt(resample_ratio)
    /\ output_delay(Self) # DelayAt(target_ratio)
    /\ output_delay(Self) # DelayAt(resample_ratio_original)

====
